---- MODULE Spec2Model ----
(***************************************************************************)
(* SATCN: structure-preserving text correction pipeline.                   *)
(*                                                                         *)
(* Spec      one correction stage (GrammarCorrectionFilterSafe, the T5     *)
(*           corrector or the GRMR-V3 filter) running process() over the   *)
(*           text_blocks of one document.                                  *)
(*                                                                         *)
(* SpecPath  PipelineRunner choosing parser and output generator from the  *)
(*           extension of the input path, and the output generator writing *)
(*           the corrected file.                                           *)
(*                                                                         *)
(* SpecSafe  Spec restricted to GrammarCorrectionFilterSafe.               *)
(* SpecTree  the Markdown parser collecting spans from the element tree.   *)
(* SpecOut   the Markdown output generator writing spans back.             *)
(* SpecRun   PipelineRunner.run over the filter list of a configuration.   *)
(* SpecDiff  DiffEngine.compute_diff over two lists of paragraphs.         *)
(* SpecHighlight  DiffEngine word-level highlights of a replaced block.    *)
(* SpecSplit DiffEngine._split_paragraphs over one text.                   *)
(* SpecEpub  EpubParserFilter.process over the documents of one book.      *)
(* SpecCache get_language_tool and reset_language_tool_cache called from   *)
(*           several threads.                                              *)
(*                                                                         *)
(* Texts are sequences of one-character strings; offsets are 0-based as in *)
(* the Python source and slices follow Python's clamping rules.            *)
(***************************************************************************)
EXTENDS Integers, Sequences, FiniteSets, TLC

\* ------------------------------------------------------------------ bounds
\* size of a document: the characters of all its spans, an empty span
\* counting as one
MaxDocLen == 2
\* total number of matches the annotator returns during one run
MaxMatches == 2

\* ------------------------------------------------- constants of the program
max_attempts == 3
InitialDelayMs == 500

\* characters span texts are made of; the bracket is a structural marker
Chars == {"a", "["}

\* the structural marker characters of _validate_markdown_structure; the
\* code-delimiter character (grave accent) is written "backtick"
MarkerSymbols == <<"[", "]", "(", ")", "backtick">>

StatKeys ==
  {"typos_fixed", "punctuation_fixed", "spacing_fixed", "casing_fixed",
   "simple_agreement_fixed"}

ZeroStats == [key \in StatKeys |-> 0]

\* ------------------------------------------------------------ text helpers
Min(a, b) == IF a <= b THEN a ELSE b

Max(a, b) == IF a >= b THEN a ELSE b

SeqsUpTo(S, n) == UNION {[1..len -> S] : len \in 0..n}

\* Python s[a:b] for 0 <= a, 0 <= b (out-of-range bounds are clamped)
Slice(s, a, b) == SubSeq(s, Min(a, Len(s)) + 1, Min(b, Len(s)))

\* Python s.count(symbol) for a one-character symbol
RECURSIVE Count(_, _)
Count(s, symbol) ==
  IF s = <<>> THEN 0
  ELSE (IF Head(s) = symbol THEN 1 ELSE 0) + Count(Tail(s), symbol)

RECURSIVE DocSize(_)
DocSize(blocks) ==
  IF blocks = <<>> THEN 0
  ELSE Max(Len(Head(blocks)), 1) + DocSize(Tail(blocks))

\* ------------------------------------------- GrammarCorrectionFilterSafe
\* variant: a rule id outside the allow-list falls through to TYPOS
get_safe_category_default_typos(match) ==
  IF match.ruleId \in
       {"COMMA_PARENTHESIS_WHITESPACE", "EN_QUOTES", "UNPAIRED_BRACKETS"}
    THEN "PUNCTUATION"
  ELSE IF match.ruleId \in {"WHITESPACE_RULE", "SENTENCE_WHITESPACE"}
    THEN "SPACING"
  ELSE IF match.ruleId \in {"UPPERCASE_SENTENCE_START"} THEN "CASING"
  ELSE IF match.ruleId \in {"PERSPECTIVE_AGREEMENT"} THEN "SIMPLE_AGREEMENT"
  ELSE "TYPOS"

\* _get_safe_category: rule id -> category, "None" when not in the allow-list
get_safe_category(match) ==
  IF match.ruleId \in {"MORFOLOGIK_RULE_EN_US", "ENGLISH_WORD_REPEAT_RULE"}
    THEN "TYPOS"
  ELSE IF match.ruleId \in
            {"COMMA_PARENTHESIS_WHITESPACE", "EN_QUOTES", "UNPAIRED_BRACKETS"}
    THEN "PUNCTUATION"
  ELSE IF match.ruleId \in {"WHITESPACE_RULE", "SENTENCE_WHITESPACE"}
    THEN "SPACING"
  ELSE IF match.ruleId \in {"UPPERCASE_SENTENCE_START"} THEN "CASING"
  ELSE IF match.ruleId \in {"PERSPECTIVE_AGREEMENT"} THEN "SIMPLE_AGREEMENT"
  ELSE "None"

\* f"{category.lower()}_fixed"
StatKey(category) ==
  CASE category = "TYPOS" -> "typos_fixed"
    [] category = "PUNCTUATION" -> "punctuation_fixed"
    [] category = "SPACING" -> "spacing_fixed"
    [] category = "CASING" -> "casing_fixed"
    [] category = "SIMPLE_AGREEMENT" -> "simple_agreement_fixed"
    [] OTHER -> "none_fixed"

\* _validate_markdown_structure
validate_markdown_structure(original_text, corrected) ==
  \A n \in 1..Len(MarkerSymbols) :
    Count(original_text, MarkerSymbols[n]) = Count(corrected, MarkerSymbols[n])

\* variant: the category test is left out of the filter
KeepMatchAnyCategory(match) == match.replacements # <<>>

\* the filter loop of _process_text: keep a match when it has a safe category
\* and a non-empty replacements list
KeepMatch(match) ==
  get_safe_category(match) # "None" /\ match.replacements # <<>>

RECURSIVE FilterSafe(_)
FilterSafe(ms) ==
  IF ms = <<>> THEN <<>>
  ELSE (IF KeepMatch(Head(ms))
          THEN <<[match |-> Head(ms), category |-> get_safe_category(Head(ms))]>>
          ELSE <<>>)
       \o FilterSafe(Tail(ms))

\* x goes before the first element whose key it is allowed to precede
RECURSIVE InsertDesc(_, _)
InsertDesc(x, sorted) ==
  IF sorted = <<>> THEN <<x>>
  ELSE IF x.match.offset >= Head(sorted).match.offset THEN <<x>> \o sorted
  ELSE <<Head(sorted)>> \o InsertDesc(x, Tail(sorted))

\* variant: the sort without reverse=True (ascending, stable)
RECURSIVE InsertAsc(_, _)
InsertAsc(x, sorted) ==
  IF sorted = <<>> THEN <<x>>
  ELSE IF x.match.offset <= Head(sorted).match.offset THEN <<x>> \o sorted
  ELSE <<Head(sorted)>> \o InsertAsc(x, Tail(sorted))

RECURSIVE SortByOffsetAsc(_)
SortByOffsetAsc(items) ==
  IF items = <<>> THEN <<>>
  ELSE InsertAsc(Head(items), SortByOffsetAsc(Tail(items)))

\* variant: descending, equal offsets in the reverse of the list order
RECURSIVE InsertDescAfterTies(_, _)
InsertDescAfterTies(x, sorted) ==
  IF sorted = <<>> THEN <<x>>
  ELSE IF x.match.offset > Head(sorted).match.offset THEN <<x>> \o sorted
  ELSE <<Head(sorted)>> \o InsertDescAfterTies(x, Tail(sorted))

RECURSIVE SortByOffsetDescTiesReversed(_)
SortByOffsetDescTiesReversed(items) ==
  IF items = <<>> THEN <<>>
  ELSE InsertDescAfterTies(Head(items), SortByOffsetDescTiesReversed(Tail(items)))

\* list.sort(key=offset, reverse=True): descending, stable
RECURSIVE SortByOffsetDesc(_)
SortByOffsetDesc(items) ==
  IF items = <<>> THEN <<>>
  ELSE InsertDesc(Head(items), SortByOffsetDesc(Tail(items)))

\* corrected_text[:start] + replacement + corrected_text[end:]
ApplyReplacement(working, match) ==
  Slice(working, 0, match.offset)
    \o match.replacements[1]
    \o Slice(working, match.offset + match.errorLength, Len(working))

\* stats[stat_key] += 1 when stat_key is a key of stats
CountCategory(st, category) ==
  IF StatKey(category) \in DOMAIN st
    THEN [st EXCEPT ![StatKey(category)] = @ + 1]
    ELSE st

AddStats(total, block_stats) ==
  [key \in DOMAIN total |->
     total[key] + (IF key \in DOMAIN block_stats THEN block_stats[key] ELSE 0)]

\* ----------------------------------------------------- the annotator engine
\* (rule id, replacement candidates) pairs the annotator may attach to a match
Suggestions ==
  { [ruleId |-> "MORFOLOGIK_RULE_EN_US", replacements |-> << <<"b", "b">> >>],
    [ruleId |-> "UNPAIRED_BRACKETS", replacements |-> << <<"[">>, <<"b">> >>],
    [ruleId |-> "MORFOLOGIK_RULE_EN_US", replacements |-> << >>],
    [ruleId |-> "PASSIVE_VOICE", replacements |-> << <<"b">> >>] }

\* matches flagging at least one character, with a range inside the span text
MatchesFor(text) ==
  { [offset |-> o, errorLength |-> l, replacements |-> s.replacements,
     ruleId |-> s.ruleId] :
      o \in 0..Len(text), l \in 1..Len(text), s \in Suggestions }

EngineMatches(text) ==
  { m \in MatchesFor(text) : m.offset + m.errorLength <= Len(text) }

\* a document: the span texts the parser handed over, of size MaxDocLen at most
Documents ==
  { d \in UNION {[1..n -> SeqsUpTo(Chars, MaxDocLen)] : n \in 1..MaxDocLen} :
      DocSize(d) <= MaxDocLen }


\* ------------------------------------------------------ the rewriter engines
Whitespace == {" ", "\t", "\n"}

\* Python str.strip()
RECURSIVE LStrip(_)
LStrip(s) ==
  IF s # <<>> /\ Head(s) \in Whitespace THEN LStrip(Tail(s)) ELSE s

RECURSIVE RStrip(_)
RStrip(s) ==
  IF s # <<>> /\ s[Len(s)] \in Whitespace
    THEN RStrip(SubSeq(s, 1, Len(s) - 1))
    ELSE s

Strip(s) == RStrip(LStrip(s))

\* full replacement texts a rewriter model may produce for a span
RewriterOutputs(text) == {text, <<"b">>, <<"[", "b">>, <<"b", " ">>}

ZeroRwStats == [corrections_made |-> 0, processed |-> 0, errors |-> 0]

\* --------------------------------------------------------------- the state
VARIABLES
  stage,          \* which filter runs: "safe", "t5" or "grmr"
  tool,           \* safe filter: self.tool is available
  has_blocks,     \* 'text_blocks' in data
  text_blocks,    \* data['text_blocks'][i]['content']
  original,       \* the contents process() was called with
  pc,             \* position of the running process() call
  idx,            \* index of the block the loop of process() is at
  attempt,        \* _check_with_retry: attempt
  delay,          \* _check_with_retry: delay, in milliseconds
  slept,          \* _check_with_retry: the time.sleep() calls made so far
  calls,          \* _check_with_retry: number of self.tool.check() calls made
  matches,        \* _process_text: matches
  safe_matches,   \* _process_text: safe_matches, sorted
  k,              \* _process_text: position of the apply loop in safe_matches
  corrected_text, \* _process_text: corrected_text
  stats,          \* _process_text: stats
  applied,        \* the matches the apply loop has applied so far, in order
  ret_text,       \* text returned to process() for the current block
  ret_stats,      \* stats returned to process() for the current block
  total_stats,    \* process(): total_stats of the safe filter
  rw_stats,       \* self.stats of the rewriter
  rw_local,       \* GRMR-V3 process(): corrections_made, blocks_processed
  budget,         \* matches the annotator may still return in this run
  log,            \* per block: what the engine did for it
  input_filepath, \* PipelineRunner.input_filepath
  path_pc,        \* position of the run that handles input_filepath
  file_format,    \* which parser / output generator pair _get_filters chose
  data_filepath,  \* data['filepath'] as handed on by the parser
  output_filepath, \* data['output_filepath']
  written,        \* paths of the files opened for writing so far
  tree,           \* the element tree: node -> tag, text, tail, children
  parsed_tree,    \* the tree as the parser handed it on
  data_blocks,    \* data['text_blocks'] with content and metadata
  extracted_blocks, \* data['text_blocks'] as the extractor built it
  tree_filters,   \* the filters between the parser and the output generator
  tree_pc,        \* position of the run over the tree
  filter_no,      \* index in tree_filters of the next filter to run
  write_no,       \* output generator: index of the next block to write back
  markdown_content, \* what the output generator wrote to the output file
  tree_written,   \* the output file has been opened for writing
  corrections,    \* number of block contents the filters have changed
  run_filters,    \* PipelineRunner.filters, by class name
  fail_fast,      \* PipelineRunner.fail_fast
  parses,         \* the input document can be read and parsed
  run_pc,         \* position of PipelineRunner.run
  run_no,         \* run(): index of the filter the loop is at
  run_data,       \* run(): what `data` is, the path or the parsed dictionary
  executed,       \* class names of the filters whose process() was called
  failures,       \* class names of the filters logged as failed
  run_written,    \* the output generator has written the output file
  run_config,     \* PipelineRunner: use_t5, t5_mode, use_grmr, grmr_mode
  raise_at,       \* the span the spelling filter raises at, 0 if none
  run_blocks,     \* run(): the contents of data['text_blocks']
  handed,         \* the contents each process() call was handed
  run_output,     \* the contents the output generator wrote
  original_paragraphs,  \* compute_paragraph_diffs: original_paragraphs
  corrected_paragraphs, \* compute_paragraph_diffs: corrected_paragraphs
  opcodes,        \* matcher.get_opcodes()
  op_no,          \* index of the opcode the loop is at
  diff_blocks,    \* compute_paragraph_diffs: diff_blocks
  paragraph_number, \* compute_paragraph_diffs: paragraph_number
  line_number,    \* compute_paragraph_diffs: line_number
  diff_pc,        \* position of the diff engine call
  hl_original,    \* highlight_changes: original
  hl_corrected,   \* highlight_changes: corrected
  original_highlights,  \* highlight_changes: original_highlights
  corrected_highlights, \* highlight_changes: corrected_highlights
  split_text,     \* _split_paragraphs: text
  paragraphs_out, \* _split_paragraphs: the list returned
  split_pc,       \* position of the _split_paragraphs call
  epub_book,      \* the paragraph elements of the book read from the file
  epub_blocks,    \* EpubParserFilter.process: text_blocks
  epub_pc,        \* position of the EpubParserFilter.process call
  cache_lock,     \* _cache_lock: the thread holding it, or "free"
  cached_tool,    \* _cached_tool
  cache_thread,   \* per thread: where its call is, and its force_refresh
  cache_hist      \* calls made, clients built, and builds and pairs
                  \* returned since the cache was last emptied or refreshed

vars ==
  <<stage, tool, has_blocks, text_blocks, original, pc, idx, attempt, delay,
    slept, calls, matches, safe_matches, k, corrected_text, stats, applied,
    ret_text, ret_stats, total_stats, rw_stats, rw_local, budget, log,
    input_filepath, path_pc, file_format, data_filepath, output_filepath,
    written, tree, parsed_tree, data_blocks, extracted_blocks, tree_filters,
    tree_pc, filter_no, write_no, markdown_content, tree_written, corrections,
    run_filters, fail_fast, parses, run_pc, run_no, run_data, executed,
    failures, run_written, run_config, raise_at, run_blocks, handed,
    run_output, original_paragraphs, corrected_paragraphs, opcodes,
    op_no, diff_blocks, paragraph_number, line_number, diff_pc, hl_original,
    hl_corrected, original_highlights, corrected_highlights, split_text,
    paragraphs_out, split_pc, epub_book, epub_blocks, epub_pc, cache_lock,
    cached_tool, cache_thread, cache_hist>>

tree_vars ==
  <<tree, parsed_tree, data_blocks, extracted_blocks, tree_filters, tree_pc,
    filter_no, write_no, markdown_content, tree_written, corrections>>

run_vars ==
  <<run_filters, fail_fast, parses, run_pc, run_no, run_data, executed,
    failures, run_written, run_config, raise_at, run_blocks, handed,
    run_output>>

diff_vars ==
  <<original_paragraphs, corrected_paragraphs, opcodes, op_no, diff_blocks,
    paragraph_number, line_number, diff_pc, hl_original, hl_corrected,
    original_highlights, corrected_highlights>>

split_vars == <<split_text, paragraphs_out, split_pc>>

\* the state of the helpers that run outside a pipeline run
epub_vars == <<epub_book, epub_blocks, epub_pc>>

cache_vars == <<cache_lock, cached_tool, cache_thread, cache_hist>>

aux_vars == <<split_vars, epub_vars, cache_vars>>

path_vars ==
  <<input_filepath, path_pc, file_format, data_filepath, output_filepath,
    written>>

retry_locals == <<attempt, delay, slept, calls>>

apply_locals == <<matches, safe_matches, k, corrected_text, stats, applied>>

ret_vars == <<ret_text, ret_stats>>

\* what no step of a correction stage changes: its configuration, the
\* contents it was called with, and the state of the runner around it
config_vars ==
  <<stage, tool, has_blocks, original, path_vars, tree_vars, run_vars,
    diff_vars, aux_vars>>

stage_vars ==
  <<stage, tool, has_blocks, text_blocks, original, pc, idx, attempt, delay,
    slept, calls, matches, safe_matches, k, corrected_text, stats, applied,
    ret_text, ret_stats, total_stats, rw_stats, rw_local, budget, log>>

\* what no step of the path handling changes
outside_path == <<stage_vars, tree_vars, run_vars, diff_vars, aux_vars>>

rw_vars == <<rw_stats, rw_local>>

NoLog == [status |-> "none", matches |-> <<>>]

Stages == {"safe", "t5", "grmr"}

\* no run of the pipeline runner is being looked at
PathIdle ==
  /\ input_filepath = <<>>
  /\ path_pc = "idle"
  /\ file_format = "none"
  /\ data_filepath = <<>>
  /\ output_filepath = <<>>
  /\ written = {}

\* no document tree is being looked at
TreeIdle ==
  /\ tree = <<>>
  /\ parsed_tree = <<>>
  /\ data_blocks = <<>>
  /\ extracted_blocks = <<>>
  /\ tree_filters = <<>>
  /\ tree_pc = "idle"
  /\ filter_no = 1
  /\ write_no = 1
  /\ markdown_content = <<>>
  /\ tree_written = FALSE
  /\ corrections = 0

\* run() has not been called
RunIdle ==
  /\ run_filters = <<>>
  /\ fail_fast = FALSE
  /\ parses = TRUE
  /\ run_pc = "idle"
  /\ run_no = 1
  /\ run_data = "path"
  /\ executed = <<>>
  /\ failures = <<>>
  /\ run_written = FALSE
  /\ run_config = <<>>
  /\ raise_at = 0
  /\ run_blocks = <<>>
  /\ handed = <<>>
  /\ run_output = <<>>

\* the diff engine has not been called
DiffIdle ==
  /\ original_paragraphs = <<>>
  /\ corrected_paragraphs = <<>>
  /\ opcodes = <<>>
  /\ op_no = 1
  /\ diff_blocks = <<>>
  /\ paragraph_number = 0
  /\ line_number = 1
  /\ diff_pc = "idle"
  /\ hl_original = <<>>
  /\ hl_corrected = <<>>
  /\ original_highlights = <<>>
  /\ corrected_highlights = <<>>

\* _split_paragraphs has not been called
SplitIdle ==
  /\ split_text = <<>>
  /\ paragraphs_out = <<>>
  /\ split_pc = "idle"

\* no helper outside a pipeline run is being looked at
\* EpubParserFilter.process has not been called
EpubIdle ==
  /\ epub_book = <<>>
  /\ epub_blocks = <<>>
  /\ epub_pc = "idle"

\* no thread is looked at
CacheIdle ==
  /\ cache_lock = "free"
  /\ cached_tool = <<>>
  /\ cache_thread = <<>>
  /\ cache_hist = <<>>

AuxIdle == SplitIdle /\ EpubIdle /\ CacheIdle

Init ==
  /\ AuxIdle
  /\ PathIdle
  /\ TreeIdle
  /\ RunIdle
  /\ DiffIdle
  /\ stage \in Stages
  /\ tool \in (IF stage = "safe" THEN BOOLEAN ELSE {TRUE})
  /\ \/ /\ has_blocks = TRUE
        /\ text_blocks \in Documents
     \/ /\ has_blocks = FALSE
        /\ text_blocks = <<>>
  /\ original = text_blocks
  /\ pc = "process"
  /\ idx = 1
  /\ attempt = 0
  /\ delay = 0
  /\ slept = <<>>
  /\ calls = 0
  /\ matches = <<>>
  /\ safe_matches = <<>>
  /\ k = 0
  /\ corrected_text = <<>>
  /\ stats = ZeroStats
  /\ applied = <<>>
  /\ ret_text = <<>>
  /\ ret_stats = ZeroStats
  /\ total_stats = ZeroStats
  /\ rw_stats = ZeroRwStats
  /\ rw_local = [corrections_made |-> 0, blocks_processed |-> 0]
  /\ budget = MaxMatches
  /\ log = [b \in 1..Len(text_blocks) |-> NoLog]

InLoop == pc = "process" /\ has_blocks /\ idx <= Len(text_blocks)

\* ---------------------------------- GrammarCorrectionFilterSafe.process()
\* `if not original_content: continue`
SafeSkipBlock ==
  /\ stage = "safe"
  /\ InLoop
  /\ text_blocks[idx] = <<>>
  /\ idx' = idx + 1
  /\ log' = [log EXCEPT ![idx] = [status |-> "skipped", matches |-> <<>>]]
  /\ UNCHANGED <<config_vars, text_blocks, pc, retry_locals, apply_locals,
                 ret_vars, total_stats, rw_vars, budget>>

\* process() calls _process_text(original_content); without a tool the text
\* comes back at once, otherwise _check_with_retry starts
EnterProcessText ==
  /\ stage = "safe"
  /\ InLoop
  /\ text_blocks[idx] # <<>>
  /\ IF tool
       THEN /\ pc' = "check"
            /\ attempt' = 1
            /\ delay' = InitialDelayMs
            /\ UNCHANGED <<ret_vars, log>>
       ELSE /\ pc' = "ret"
            /\ ret_text' = text_blocks[idx]
            /\ ret_stats' = ZeroStats
            /\ log' = [log EXCEPT ![idx] =
                         [status |-> "disabled", matches |-> <<>>]]
            /\ UNCHANGED <<attempt, delay>>
  /\ UNCHANGED <<config_vars, text_blocks, idx, slept, calls, apply_locals,
                 total_stats, rw_vars, budget>>

\* _check_with_retry: self.tool.check(text) returns ms
CheckReturns ==
  /\ pc = "check"
  /\ \E n \in 0..budget :
       \E ms \in [1..n -> EngineMatches(text_blocks[idx])] :
         /\ matches' = ms
         /\ budget' = budget - n
         /\ log' = [log EXCEPT ![idx] = [status |-> "ok", matches |-> ms]]
  /\ calls' = calls + 1
  /\ pc' = "checked"
  /\ UNCHANGED <<config_vars, text_blocks, idx, attempt, delay, slept,
                 safe_matches, k, corrected_text, stats, applied, ret_vars,
                 total_stats, rw_vars>>

\* variant: the sleep comes before the test for the last attempt
CheckRaisesSleepFirst ==
  /\ pc = "check"
  /\ calls' = calls + 1
  /\ slept' = Append(slept, delay)
  /\ delay' = delay * 2
  /\ IF attempt = max_attempts
       THEN /\ pc' = "raised"
            /\ UNCHANGED attempt
       ELSE /\ attempt' = attempt + 1
            /\ pc' = "check"
  /\ UNCHANGED <<config_vars, text_blocks, idx, apply_locals, ret_vars,
                 total_stats, rw_vars, budget, log>>

\* _check_with_retry: self.tool.check(text) raises; the last attempt re-raises,
\* an earlier one sleeps and doubles the delay
CheckRaises ==
  /\ pc = "check"
  /\ calls' = calls + 1
  /\ IF attempt = max_attempts
       THEN /\ pc' = "raised"
            /\ UNCHANGED <<attempt, delay, slept>>
       ELSE /\ slept' = Append(slept, delay)
            /\ delay' = delay * 2
            /\ attempt' = attempt + 1
            /\ pc' = "check"
  /\ UNCHANGED <<config_vars, text_blocks, idx, apply_locals, ret_vars,
                 total_stats, rw_vars, budget, log>>

\* variant: no handler around _check_with_retry, the exception leaves process()
CheckFailureEscapes ==
  /\ stage = "safe"
  /\ pc = "raised"
  /\ pc' = "escaped"
  /\ UNCHANGED <<config_vars, text_blocks, idx, retry_locals, apply_locals,
                 ret_vars, total_stats, rw_vars, budget, log>>

\* _process_text: `except Exception` around _check_with_retry
HandleCheckFailure ==
  /\ stage = "safe"
  /\ pc = "raised"
  /\ pc' = "ret"
  /\ ret_text' = text_blocks[idx]
  /\ ret_stats' = ZeroStats
  /\ log' = [log EXCEPT ![idx] = [status |-> "failed", matches |-> <<>>]]
  /\ attempt' = 0
  /\ delay' = 0
  /\ slept' = <<>>
  /\ calls' = 0
  /\ UNCHANGED <<config_vars, text_blocks, idx, apply_locals, total_stats,
                 rw_vars, budget>>

\* _process_text: build safe_matches and sort it
FilterAndSort ==
  /\ pc = "checked"
  /\ safe_matches' = SortByOffsetDesc(FilterSafe(matches))
  /\ corrected_text' = text_blocks[idx]
  /\ stats' = ZeroStats
  /\ applied' = <<>>
  /\ k' = 1
  /\ pc' = "apply"
  /\ attempt' = 0
  /\ delay' = 0
  /\ slept' = <<>>
  /\ calls' = 0
  /\ UNCHANGED <<config_vars, text_blocks, idx, matches, ret_vars,
                 total_stats, rw_vars, budget, log>>

\* variant: the loop writes each intermediate text into the block
ApplyMatchWriteThrough ==
  /\ pc = "apply"
  /\ k <= Len(safe_matches)
  /\ corrected_text' = ApplyReplacement(corrected_text, safe_matches[k].match)
  /\ text_blocks' = [text_blocks EXCEPT ![idx] = corrected_text']
  /\ stats' = CountCategory(stats, safe_matches[k].category)
  /\ applied' = Append(applied, safe_matches[k].match)
  /\ k' = k + 1
  /\ UNCHANGED <<config_vars, pc, idx, retry_locals, matches,
                 safe_matches, ret_vars, total_stats, rw_vars, budget, log>>

\* _process_text: one iteration of the loop over safe_matches
ApplyMatch ==
  /\ pc = "apply"
  /\ k <= Len(safe_matches)
  /\ corrected_text' = ApplyReplacement(corrected_text, safe_matches[k].match)
  /\ stats' = CountCategory(stats, safe_matches[k].category)
  /\ applied' = Append(applied, safe_matches[k].match)
  /\ k' = k + 1
  /\ UNCHANGED <<config_vars, text_blocks, pc, idx, retry_locals, matches,
                 safe_matches, ret_vars, total_stats, rw_vars, budget, log>>

\* variant: the revert returns the original text but keeps the counters
ValidateAndReturnKeepStats ==
  /\ pc = "apply"
  /\ k > Len(safe_matches)
  /\ IF validate_markdown_structure(text_blocks[idx], corrected_text)
       THEN ret_text' = corrected_text
       ELSE ret_text' = text_blocks[idx]
  /\ ret_stats' = stats
  /\ pc' = "ret"
  /\ UNCHANGED <<config_vars, text_blocks, idx, retry_locals, apply_locals,
                 total_stats, rw_vars, budget, log>>

\* _process_text: final validation, then return
ValidateAndReturn ==
  /\ pc = "apply"
  /\ k > Len(safe_matches)
  /\ IF validate_markdown_structure(text_blocks[idx], corrected_text)
       THEN /\ ret_text' = corrected_text
            /\ ret_stats' = stats
       ELSE /\ ret_text' = text_blocks[idx]
            /\ ret_stats' = ZeroStats
  /\ pc' = "ret"
  /\ UNCHANGED <<config_vars, text_blocks, idx, retry_locals, apply_locals,
                 total_stats, rw_vars, budget, log>>

\* process(): block['content'] = corrected_content; total_stats += block_stats
SafeAssign ==
  /\ stage = "safe"
  /\ pc = "ret"
  /\ text_blocks' = [text_blocks EXCEPT ![idx] = ret_text]
  /\ total_stats' = AddStats(total_stats, ret_stats)
  /\ idx' = idx + 1
  /\ pc' = "process"
  /\ matches' = <<>>
  /\ safe_matches' = <<>>
  /\ k' = 0
  /\ corrected_text' = <<>>
  /\ stats' = ZeroStats
  /\ applied' = <<>>
  /\ ret_text' = <<>>
  /\ ret_stats' = ZeroStats
  /\ UNCHANGED <<config_vars, retry_locals, rw_vars, budget, log>>

\* process(): return data, total_stats (at once when there are no text_blocks)
SafeFinish ==
  /\ stage = "safe"
  /\ pc = "process"
  /\ ~has_blocks \/ idx > Len(text_blocks)
  /\ pc' = "done"
  /\ UNCHANGED <<config_vars, text_blocks, idx, retry_locals, apply_locals,
                 ret_vars, total_stats, rw_vars, budget, log>>


\* ------------------------- T5Corrector.process() / GRMRV3GrammarFilter.process()
Rewriter == stage \in {"t5", "grmr"}

\* `if not original_content or not original_content.strip(): continue`
RewriterSkipBlock ==
  /\ Rewriter
  /\ InLoop
  /\ Strip(text_blocks[idx]) = <<>>
  /\ idx' = idx + 1
  /\ log' = [log EXCEPT ![idx] = [status |-> "skipped", matches |-> <<>>]]
  /\ UNCHANGED <<config_vars, text_blocks, pc, retry_locals, apply_locals,
                 ret_vars, total_stats, rw_vars, budget>>

\* correct() / correct_text(): the model answers with a full replacement text.
\* T5 counts the text in self.stats; GRMR-V3 strips the answer and counts the
\* block in process()
RewriterReturns ==
  /\ Rewriter
  /\ InLoop
  /\ Strip(text_blocks[idx]) # <<>>
  /\ \E out \in RewriterOutputs(text_blocks[idx]) :
       IF stage = "t5"
         THEN /\ ret_text' = out
              /\ rw_stats' =
                   [rw_stats EXCEPT
                      !.processed = @ + 1,
                      !.corrections_made =
                         IF out # text_blocks[idx] THEN @ + 1 ELSE @]
              /\ UNCHANGED rw_local
         ELSE /\ ret_text' = Strip(out)
              /\ rw_local' = [rw_local EXCEPT !.blocks_processed = @ + 1]
              /\ UNCHANGED rw_stats
  /\ pc' = "ret"
  /\ log' = [log EXCEPT ![idx] = [status |-> "ok", matches |-> <<>>]]
  /\ UNCHANGED <<config_vars, text_blocks, idx, retry_locals, apply_locals,
                 ret_stats, total_stats, budget>>

\* correct() / correct_text(): tokenizer or model raises
RewriterRaises ==
  /\ Rewriter
  /\ InLoop
  /\ Strip(text_blocks[idx]) # <<>>
  /\ rw_local' =
       IF stage = "grmr"
         THEN [rw_local EXCEPT !.blocks_processed = @ + 1]
         ELSE rw_local
  /\ pc' = "raised"
  /\ UNCHANGED <<config_vars, text_blocks, idx, retry_locals, apply_locals,
                 ret_vars, total_stats, rw_stats, budget, log>>

\* `except Exception` of correct() / correct_text(): return the original text
HandleRewriterError ==
  /\ Rewriter
  /\ pc = "raised"
  /\ ret_text' = text_blocks[idx]
  /\ rw_stats' =
       IF stage = "t5" THEN [rw_stats EXCEPT !.errors = @ + 1] ELSE rw_stats
  /\ pc' = "ret"
  /\ log' = [log EXCEPT ![idx] = [status |-> "failed", matches |-> <<>>]]
  /\ UNCHANGED <<config_vars, text_blocks, idx, retry_locals, apply_locals,
                 ret_stats, total_stats, rw_local, budget>>

\* process(): `if corrected_content != original_content: block["content"] = ...`
RewriterAssign ==
  /\ Rewriter
  /\ pc = "ret"
  /\ IF ret_text # text_blocks[idx]
       THEN /\ text_blocks' = [text_blocks EXCEPT ![idx] = ret_text]
            /\ rw_local' =
                 IF stage = "grmr"
                   THEN [rw_local EXCEPT !.corrections_made = @ + 1]
                   ELSE rw_local
       ELSE UNCHANGED <<text_blocks, rw_local>>
  /\ idx' = idx + 1
  /\ pc' = "process"
  /\ ret_text' = <<>>
  /\ UNCHANGED <<config_vars, retry_locals, apply_locals, ret_stats,
                 total_stats, rw_stats, budget, log>>

\* process(): return data; GRMR-V3 adds its local counters to self.stats
RewriterFinish ==
  /\ Rewriter
  /\ pc = "process"
  /\ ~has_blocks \/ idx > Len(text_blocks)
  /\ rw_stats' =
       IF stage = "grmr" /\ has_blocks
         THEN [rw_stats EXCEPT
                 !.corrections_made = @ + rw_local.corrections_made,
                 !.processed = @ + rw_local.blocks_processed]
         ELSE rw_stats
  /\ pc' = "done"
  /\ UNCHANGED <<config_vars, text_blocks, idx, retry_locals, apply_locals,
                 ret_vars, total_stats, rw_local, budget, log>>

Next ==
  \/ SafeSkipBlock
  \/ EnterProcessText
  \/ CheckReturns
  \/ CheckRaises
  \/ HandleCheckFailure
  \/ FilterAndSort
  \/ ApplyMatch
  \/ ValidateAndReturn
  \/ SafeAssign
  \/ SafeFinish
  \/ RewriterSkipBlock
  \/ RewriterReturns
  \/ RewriterRaises
  \/ HandleRewriterError
  \/ RewriterAssign
  \/ RewriterFinish

Spec == Init /\ [][Next]_vars

\* SpecSafe  the safe grammar filter alone
InitSafe == Init /\ stage = "safe"

NextSafe ==
  \/ SafeSkipBlock
  \/ EnterProcessText
  \/ CheckReturns
  \/ CheckRaises
  \/ HandleCheckFailure
  \/ FilterAndSort
  \/ ApplyMatch
  \/ ValidateAndReturn
  \/ SafeAssign
  \/ SafeFinish

SpecSafe == InitSafe /\ [][NextSafe]_vars

\* ================================================ paths of input and output
LowerCase ==
  [c \in {"M", "D", "E", "P", "U", "B", "T", "X"} |->
     CASE c = "M" -> "m" [] c = "D" -> "d" [] c = "E" -> "e" [] c = "P" -> "p"
       [] c = "U" -> "u" [] c = "B" -> "b" [] c = "T" -> "t" [] c = "X" -> "x"]

\* Python str.lower()
Lower(s) ==
  [i \in 1..Len(s) |-> IF s[i] \in DOMAIN LowerCase THEN LowerCase[s[i]] ELSE s[i]]

\* Python s.rfind(c) for a one-character c: 0-based index, -1 when absent
RFind(s, c) ==
  IF \E i \in 1..Len(s) : s[i] = c
    THEN (CHOOSE i \in 1..Len(s) :
            s[i] = c /\ \A j \in (i + 1)..Len(s) : s[j] # c) - 1
    ELSE -1

\* os.path.splitext (posixpath): the extension starts at the last dot of the
\* last path component, unless only dots precede it in that component
SplitExt(path) ==
  LET sepIndex == RFind(path, "/")
      dotIndex == RFind(path, ".")
  IN  IF /\ dotIndex > sepIndex
         /\ \E f \in (sepIndex + 1)..(dotIndex - 1) : path[f + 1] # "."
        THEN [root |-> Slice(path, 0, dotIndex),
              ext |-> Slice(path, dotIndex, Len(path))]
        ELSE [root |-> path, ext |-> <<>>]

StartsWith(s, prefix) ==
  Len(prefix) <= Len(s) /\ SubSeq(s, 1, Len(prefix)) = prefix

\* Python s.replace(old, new), old not empty: every occurrence, left to right
RECURSIVE Replace(_, _, _)
Replace(s, old, new) ==
  IF s = <<>> THEN <<>>
  ELSE IF StartsWith(s, old)
    THEN new \o Replace(SubSeq(s, Len(old) + 1, Len(s)), old, new)
  ELSE <<Head(s)>> \o Replace(Tail(s), old, new)

DotMd == <<".", "m", "d">>

DotEpub == <<".", "e", "p", "u", "b">>

CorrectedSuffix == <<"_", "c", "o", "r", "r", "e", "c", "t", "e", "d">>

\* directories, file stems and extensions the input paths are made of
InputDirs ==
  { <<>>, <<"t", "/">>, <<"x", ".", "m", "d", "/">>,
    <<"x", ".", "e", "p", "u", "b", "/">> }

InputStems == { <<"b">>, <<"b", ".", "m", "d">>, <<"b", ".", "e", "p", "u", "b">> }

InputExts ==
  { DotMd, <<".", "M", "D">>, <<".", "M", "d">>, DotEpub,
    <<".", "E", "P", "U", "B">>, <<".", "t", "x", "t">>, <<>> }

InputPaths ==
  { dir \o stem \o ext : dir \in InputDirs, stem \in InputStems, ext \in InputExts }

\* no correction stage is being looked at
StageIdle ==
  /\ stage = "safe"
  /\ tool = TRUE
  /\ has_blocks = FALSE
  /\ text_blocks = <<>>
  /\ original = <<>>
  /\ pc = "idle"
  /\ idx = 1
  /\ attempt = 0
  /\ delay = 0
  /\ slept = <<>>
  /\ calls = 0
  /\ matches = <<>>
  /\ safe_matches = <<>>
  /\ k = 0
  /\ corrected_text = <<>>
  /\ stats = ZeroStats
  /\ applied = <<>>
  /\ ret_text = <<>>
  /\ ret_stats = ZeroStats
  /\ total_stats = ZeroStats
  /\ rw_stats = ZeroRwStats
  /\ rw_local = [corrections_made |-> 0, blocks_processed |-> 0]
  /\ budget = 0
  /\ log = <<>>

InitPath ==
  /\ AuxIdle
  /\ StageIdle
  /\ TreeIdle
  /\ RunIdle
  /\ DiffIdle
  /\ input_filepath \in InputPaths
  /\ path_pc = "new"
  /\ file_format = "none"
  /\ data_filepath = <<>>
  /\ output_filepath = <<>>
  /\ written = {}

\* PipelineRunner._get_filters: parser and output generator by extension
GetFilters ==
  /\ path_pc = "new"
  /\ LET file_extension == SplitExt(input_filepath).ext IN
       IF Lower(file_extension) = DotMd
         THEN file_format' = "markdown" /\ path_pc' = "filters"
       ELSE IF Lower(file_extension) = DotEpub
         THEN file_format' = "epub" /\ path_pc' = "filters"
       ELSE file_format' = "none" /\ path_pc' = "unsupported"
  /\ UNCHANGED <<outside_path, input_filepath, data_filepath, output_filepath,
                 written>>

\* run(): the parser reads the input file and hands its path on as
\* data['filepath']; the correction stages keep it
ParserProcess ==
  /\ path_pc = "filters"
  /\ data_filepath' = input_filepath
  /\ path_pc' = "parsed"
  /\ UNCHANGED <<outside_path, input_filepath, file_format, output_filepath,
                 written>>

\* MarkdownOutputGenerator.process: step 3, write to a new file
MarkdownOutputProcess ==
  /\ path_pc = "parsed"
  /\ file_format = "markdown"
  /\ output_filepath' = Replace(data_filepath, DotMd, CorrectedSuffix \o DotMd)
  /\ written' = written \cup {output_filepath'}
  /\ path_pc' = "written"
  /\ UNCHANGED <<outside_path, input_filepath, file_format, data_filepath>>

\* EpubOutputGenerator.process: epub.write_epub(output_filepath, ...)
EpubOutputProcess ==
  /\ path_pc = "parsed"
  /\ file_format = "epub"
  /\ output_filepath' =
       Replace(data_filepath, DotEpub, CorrectedSuffix \o DotEpub)
  /\ written' = written \cup {output_filepath'}
  /\ path_pc' = "written"
  /\ UNCHANGED <<outside_path, input_filepath, file_format, data_filepath>>

NextPath ==
  \/ GetFilters
  \/ ParserProcess
  \/ MarkdownOutputProcess
  \/ EpubOutputProcess

SpecPath == InitPath /\ [][NextPath]_vars


\* =========================================== the markdown tree of a document
\* SpecTree  one run over a parsed markdown document: the tree extractor, the
\*           filters between parser and output generator, and
\*           MarkdownOutputGenerator.process writing the spans back,
\*           serializing and writing the file.
\* SpecOut   MarkdownOutputGenerator.process called on a data dictionary
\*           whose blocks may hold no element.
\* An absent text or tail (None) and the empty string are both <<>>: the
\* source only tests them for truth.

\* total number of characters in the texts and tails of a tree
MaxTreeText == 3
\* number of block contents the filters change during one run
MaxCorrections == 1
\* number of blocks of a data dictionary made by hand
MaxBlocks == 2

\* the nodes of a tree; RootNode is the root handed to the tree processors
Nodes == 1..4

RootNode == 1

\* metadata['element'] of a block that holds no element
NoElement == 0

TreeChars == {"a", " "}

\* the shapes of the trees: tag and children of every node
TreeShapes ==
  { <<[tag |-> "div", children |-> <<2>>], [tag |-> "p", children |-> <<3>>],
      [tag |-> "em", children |-> <<4>>],
      [tag |-> "strong", children |-> <<>>]>>,
    <<[tag |-> "div", children |-> <<2>>],
      [tag |-> "p", children |-> <<3, 4>>],
      [tag |-> "em", children |-> <<>>], [tag |-> "code", children |-> <<>>]>>,
    <<[tag |-> "div", children |-> <<2, 3>>],
      [tag |-> "h1", children |-> <<>>], [tag |-> "ul", children |-> <<4>>],
      [tag |-> "li", children |-> <<>>]>> }

RECURSIVE Fillings(_, _)
\* the lists of n texts with at most `room` characters in total
Fillings(n, room) ==
  IF n = 0 THEN {<<>>}
  ELSE UNION { { <<t>> \o rest : rest \in Fillings(n - 1, room - Len(t)) } :
               t \in SeqsUpTo(TreeChars, room) }

\* the trees with at most `room` characters of text: the root carries no
\* text of its own, every other node any text and tail
TreesUpTo(room) ==
  { [n \in Nodes |->
       [tag |-> shape[n].tag, children |-> shape[n].children,
        text |-> IF n = RootNode THEN <<>> ELSE texts[2 * n - 3],
        tail |-> IF n = RootNode THEN <<>> ELSE texts[2 * n - 2]]] :
    shape \in TreeShapes, texts \in Fillings(6, room) }

\* the trees the parser may hand to its tree processors
Trees == TreesUpTo(MaxTreeText)

TextBlock(content, element, is_tail) ==
  [content |-> content, element |-> element, is_tail |-> is_tail]

\* `if element.text and element.text.strip()`: the block of a node's text
TextSpan(t, element) ==
  IF Strip(t[element].text) # <<>>
    THEN <<TextBlock(Strip(t[element].text), element, FALSE)>>
    ELSE <<>>

\* `if child.tail and child.tail.strip()`: the block of a child's tail
TailSpan(t, child) ==
  IF Strip(t[child].tail) # <<>>
    THEN <<TextBlock(Strip(t[child].tail), child, TRUE)>>
    ELSE <<>>

RECURSIVE extract_text_tail_first(_, _)
RECURSIVE ExtractTailFirstChildren(_, _)
\* variant: the tail of a child is taken before the child's own spans
extract_text_tail_first(t, element) ==
  TextSpan(t, element) \o ExtractTailFirstChildren(t, t[element].children)

ExtractTailFirstChildren(t, kids) ==
  IF kids = <<>> THEN <<>>
  ELSE TailSpan(t, Head(kids)) \o extract_text_tail_first(t, Head(kids))
         \o ExtractTailFirstChildren(t, Tail(kids))

RECURSIVE extract_text(_, _)
RECURSIVE ExtractChildren(_, _)
\* _extract_text: the element's text, then for each child its spans and
\* after them its tail
extract_text(t, element) ==
  TextSpan(t, element) \o ExtractChildren(t, t[element].children)

ExtractChildren(t, kids) ==
  IF kids = <<>> THEN <<>>
  ELSE extract_text(t, Head(kids)) \o TailSpan(t, Head(kids))
         \o ExtractChildren(t, Tail(kids))

\* _get_markdown_syntax: prefix and suffix of a tag
get_markdown_syntax(tag) ==
  CASE tag = "h1" -> [prefix |-> <<"#", " ">>, suffix |-> <<>>]
    [] tag = "li" -> [prefix |-> <<"*", " ">>, suffix |-> <<>>]
    [] tag = "strong" -> [prefix |-> <<"*", "*">>, suffix |-> <<"*", "*">>]
    [] tag = "em" -> [prefix |-> <<"*">>, suffix |-> <<"*">>]
    [] tag = "code" -> [prefix |-> <<"backtick">>, suffix |-> <<"backtick">>]
    [] OTHER -> [prefix |-> <<>>, suffix |-> <<>>]

\* _is_block_element
is_block_element(tag) == tag \in {"h1", "p", "ul", "ol", "li"}

RECURSIVE serialize_element(_, _)
RECURSIVE SerializeList(_, _)
\* _serialize_element: prefix, text, children, suffix, a blank line after a
\* block element, tail
serialize_element(t, element) ==
  get_markdown_syntax(t[element].tag).prefix
    \o t[element].text
    \o SerializeList(t, t[element].children)
    \o get_markdown_syntax(t[element].tag).suffix
    \o (IF is_block_element(t[element].tag) THEN <<"\n", "\n">> ELSE <<>>)
    \o t[element].tail

SerializeList(t, kids) ==
  IF kids = <<>> THEN <<>>
  ELSE serialize_element(t, Head(kids)) \o SerializeList(t, Tail(kids))

\* _serialize_children
serialize_children(t, element) == SerializeList(t, t[element].children)

\* the lists of correction filters _get_filters puts between the parser and
\* the output generator: the default pipeline, and for T5 and for GRMR-V3 the
\* modes "replace", "hybrid" and "supplement"
AllFilterLists ==
  { <<"SpellingCorrectionFilter", "GrammarCorrectionFilterSafe",
      "TTSNormalizer">>,
    <<"T5CorrectionFilter", "TTSNormalizer">>,
    <<"T5CorrectionFilter", "SpellingCorrectionFilter",
      "GrammarCorrectionFilterSafe", "TTSNormalizer">>,
    <<"SpellingCorrectionFilter", "GrammarCorrectionFilterSafe",
      "T5CorrectionFilter", "TTSNormalizer">>,
    <<"GRMRV3GrammarFilter", "TTSNormalizer">>,
    <<"GRMRV3GrammarFilter", "SpellingCorrectionFilter",
      "GrammarCorrectionFilterSafe", "TTSNormalizer">>,
    <<"SpellingCorrectionFilter", "GrammarCorrectionFilterSafe",
      "GRMRV3GrammarFilter", "TTSNormalizer">> }

\* the lists looked at over a tree: the default pipeline and the two
\* "replace" modes
FilterLists == {filters \in AllFilterLists : Len(filters) <= 3}

\* the filters that replace a content by the answer of a model
RewriterFilters == {"T5CorrectionFilter", "GRMRV3GrammarFilter"}

\* the contents a filter may leave in a block: every filter passes an empty
\* content by; any of them may edit a content, and the answer of a model may
\* be empty
FilterOutputs(f, content) ==
  IF content = <<>> THEN {content}
  ELSE {content, <<"b">>} \cup (IF f \in RewriterFilters THEN {<<>>} ELSE {})

\* number of blocks whose content differs
Changed(old, new) == Cardinality({i \in 1..Len(old) : new[i].content # old[i].content})

\* variant: the filter writes the new content through to the element as well
WriteThroughTree(t, old, new) ==
  [n \in Nodes |->
     IF \E i \in 1..Len(new) :
          /\ new[i].element = n
          /\ ~new[i].is_tail
          /\ new[i].content # old[i].content
       THEN [t[n] EXCEPT !.text =
               new[CHOOSE i \in 1..Len(new) :
                     new[i].element = n /\ ~new[i].is_tail].content]
       ELSE t[n]]

\* what process() of a correction filter does to the tree: nothing
FilterTree(t, old, new) == t

\* variant: a block that holds no element is passed by
WriteSpanSkipsUnresolved ==
  /\ tree_pc = "output"
  /\ write_no <= Len(data_blocks)
  /\ data_blocks[write_no].element = NoElement
  /\ write_no' = write_no + 1
  /\ UNCHANGED <<tree, parsed_tree, data_blocks, extracted_blocks, tree_filters,
                 tree_pc, filter_no, markdown_content, tree_written,
                 corrections>>
  /\ UNCHANGED <<stage_vars, path_vars, run_vars, diff_vars, aux_vars>>

InitTree ==
  /\ AuxIdle
  /\ StageIdle
  /\ PathIdle
  /\ RunIdle
  /\ DiffIdle
  /\ tree \in Trees
  /\ parsed_tree = tree
  /\ data_blocks = <<>>
  /\ extracted_blocks = <<>>
  /\ tree_filters \in FilterLists
  /\ tree_pc = "parse"
  /\ filter_no = 1
  /\ write_no = 1
  /\ markdown_content = <<>>
  /\ tree_written = FALSE
  /\ corrections = 0

\* _TextExtractorTreeprocessor.run: md.text_blocks = [], _extract_text(root);
\* MarkdownParserFilter.process returns them with the tree
ExtractorRun ==
  /\ tree_pc = "parse"
  /\ data_blocks' = extract_text(tree, RootNode)
  /\ extracted_blocks' = data_blocks'
  /\ tree_pc' = "filters"
  /\ UNCHANGED <<tree, parsed_tree, tree_filters, filter_no, write_no,
                 markdown_content, tree_written, corrections>>
  /\ UNCHANGED <<stage_vars, path_vars, run_vars, diff_vars, aux_vars>>

\* process() of the next correction filter: block['content'] = ... for the
\* blocks it edits
FilterProcess ==
  /\ tree_pc = "filters"
  /\ filter_no <= Len(tree_filters)
  /\ \E contents \in [1..Len(data_blocks) -> SeqsUpTo({"b"}, 1) \cup
                        {data_blocks[i].content : i \in 1..Len(data_blocks)}] :
       /\ \A i \in 1..Len(data_blocks) :
            contents[i] \in
              FilterOutputs(tree_filters[filter_no], data_blocks[i].content)
       /\ data_blocks' =
            [i \in 1..Len(data_blocks) |->
               [data_blocks[i] EXCEPT !.content = contents[i]]]
       /\ corrections' = corrections + Changed(data_blocks, data_blocks')
       /\ corrections' <= MaxCorrections
       /\ tree' = FilterTree(tree, data_blocks, data_blocks')
  /\ filter_no' = filter_no + 1
  /\ UNCHANGED <<parsed_tree, extracted_blocks, tree_filters, tree_pc, write_no,
                 markdown_content, tree_written>>
  /\ UNCHANGED <<stage_vars, path_vars, run_vars, diff_vars, aux_vars>>

\* run() reaches the output generator
OutputEnter ==
  /\ tree_pc = "filters"
  /\ filter_no > Len(tree_filters)
  /\ tree_pc' = "output"
  /\ write_no' = 1
  /\ UNCHANGED <<tree, parsed_tree, data_blocks, extracted_blocks, tree_filters,
                 filter_no, markdown_content, tree_written, corrections>>
  /\ UNCHANGED <<stage_vars, path_vars, run_vars, diff_vars, aux_vars>>

\* MarkdownOutputGenerator.process, step 1, one block: the content goes to
\* the element's tail, after a space, or to its text
WriteSpan ==
  /\ tree_pc = "output"
  /\ write_no <= Len(data_blocks)
  /\ LET block == data_blocks[write_no] IN
       /\ block.element # NoElement
       /\ tree' =
            IF block.is_tail
              THEN [tree EXCEPT ![block.element].tail =
                      IF block.content # <<>> THEN <<" ">> \o block.content
                      ELSE <<>>]
              ELSE [tree EXCEPT ![block.element].text = block.content]
  /\ write_no' = write_no + 1
  /\ UNCHANGED <<parsed_tree, data_blocks, extracted_blocks, tree_filters,
                 tree_pc, filter_no, markdown_content, tree_written,
                 corrections>>
  /\ UNCHANGED <<stage_vars, path_vars, run_vars, diff_vars, aux_vars>>

\* MarkdownOutputGenerator.process, step 1: the assignment to an attribute of
\* a block's element raises when the block holds no element
WriteSpanRaises ==
  /\ tree_pc = "output"
  /\ write_no <= Len(data_blocks)
  /\ data_blocks[write_no].element = NoElement
  /\ tree_pc' = "raised"
  /\ UNCHANGED <<tree, parsed_tree, data_blocks, extracted_blocks, tree_filters,
                 filter_no, write_no, markdown_content, tree_written,
                 corrections>>
  /\ UNCHANGED <<stage_vars, path_vars, run_vars, diff_vars, aux_vars>>

\* MarkdownOutputGenerator.process, steps 2 and 3: serialize the tree and
\* write the text to the output file
SerializeAndWrite ==
  /\ tree_pc = "output"
  /\ write_no > Len(data_blocks)
  /\ markdown_content' = serialize_children(tree, RootNode)
  /\ tree_written' = TRUE
  /\ tree_pc' = "written"
  /\ UNCHANGED <<tree, parsed_tree, data_blocks, extracted_blocks, tree_filters,
                 filter_no, write_no, corrections>>
  /\ UNCHANGED <<stage_vars, path_vars, run_vars, diff_vars, aux_vars>>

NextTree ==
  \/ ExtractorRun
  \/ FilterProcess
  \/ OutputEnter
  \/ WriteSpan
  \/ SerializeAndWrite

SpecTree == InitTree /\ [][NextTree]_vars

\* the data dictionaries process() of the output generator is called with:
\* blocks holding an element of the tree or none
HandMadeBlocks ==
  SeqsUpTo({TextBlock(content, element, is_tail) :
              content \in {<<"b">>}, element \in {NoElement, 2, 3},
              is_tail \in BOOLEAN}, MaxBlocks)

InitOut ==
  /\ AuxIdle
  /\ StageIdle
  /\ PathIdle
  /\ RunIdle
  /\ DiffIdle
  /\ tree \in TreesUpTo(1)
  /\ parsed_tree = tree
  /\ data_blocks \in HandMadeBlocks
  /\ extracted_blocks = data_blocks
  /\ tree_filters = <<>>
  /\ tree_pc = "output"
  /\ filter_no = 1
  /\ write_no = 1
  /\ markdown_content = <<>>
  /\ tree_written = FALSE
  /\ corrections = 0

NextOut ==
  \/ WriteSpan
  \/ WriteSpanRaises
  \/ SerializeAndWrite

SpecOut == InitOut /\ [][NextOut]_vars

\* ==================================================== PipelineRunner.run
\* SpecRun   run(): the loop over self.filters, each process() call inside
\*           the try, a failure logged and re-raised only with fail_fast.

\* most spans in the document of a run
MaxSpans == 2

ParserFilters == {"MarkdownParserFilter", "EpubParserFilter"}

OutputGenerators == {"MarkdownOutputGenerator", "EpubOutputGenerator"}

Modes == {"replace", "hybrid", "supplement"}

Config(use_t5, t5_mode, use_grmr, grmr_mode) ==
  [use_t5 |-> use_t5, t5_mode |-> t5_mode, use_grmr |-> use_grmr,
   grmr_mode |-> grmr_mode]

\* the configurations __init__ accepts: not both models, a known mode
Configurations ==
  {Config(FALSE, "replace", FALSE, "replace")}
    \cup {Config(TRUE, mode, FALSE, "replace") : mode \in Modes}
    \cup {Config(FALSE, "replace", TRUE, mode) : mode \in Modes}

RuleFilters == <<"SpellingCorrectionFilter", "GrammarCorrectionFilterSafe">>

\* variant: "hybrid" and "supplement" both put the model after the rules
get_filters_model_last(format, config) ==
  LET parser == IF format = "markdown" THEN "MarkdownParserFilter"
                ELSE "EpubParserFilter"
      output == IF format = "markdown" THEN "MarkdownOutputGenerator"
                ELSE "EpubOutputGenerator"
      ModelFilters(model, mode) ==
        IF mode = "replace" THEN <<model>> ELSE RuleFilters \o <<model>>
  IN <<parser>>
       \o (IF config.use_t5
             THEN ModelFilters("T5CorrectionFilter", config.t5_mode)
           ELSE IF config.use_grmr
             THEN ModelFilters("GRMRV3GrammarFilter", config.grmr_mode)
           ELSE RuleFilters)
       \o <<"TTSNormalizer", output>>

\* _get_filters: parser, correction filters by configuration, TTS
\* normalizer, output generator
get_filters(format, config) ==
  LET parser == IF format = "markdown" THEN "MarkdownParserFilter"
                ELSE "EpubParserFilter"
      output == IF format = "markdown" THEN "MarkdownOutputGenerator"
                ELSE "EpubOutputGenerator"
      ModelFilters(model, mode) ==
        IF mode = "replace" THEN <<model>>
        ELSE IF mode = "hybrid" THEN <<model>> \o RuleFilters
        ELSE RuleFilters \o <<model>>
  IN <<parser>>
       \o (IF config.use_t5
             THEN ModelFilters("T5CorrectionFilter", config.t5_mode)
           ELSE IF config.use_grmr
             THEN ModelFilters("GRMRV3GrammarFilter", config.grmr_mode)
           ELSE RuleFilters)
       \o <<"TTSNormalizer", output>>

\* the span contents a parser hands on: "a" is a misspelled word
RunContents == { <<"a">>, <<"b">> }

RunDocuments == UNION {[1..n -> RunContents] : n \in 1..MaxSpans}

\* SpellingCorrectionFilter on one content: misspelled words replaced
SpellFix(content) ==
  [i \in 1..Len(content) |-> IF content[i] = "a" THEN "b" ELSE content[i]]

\* the contents after a filter has assigned the spans before position `stop`
SpellFixUpTo(blocks, stop) ==
  [i \in 1..Len(blocks) |->
     IF i < stop THEN SpellFix(blocks[i]) ELSE blocks[i]]

\* the contents a filter that returns may leave in the spans
EditedBy(f, blocks) ==
  IF f = "SpellingCorrectionFilter"
    THEN {SpellFixUpTo(blocks, Len(blocks) + 1)}
    ELSE {new \in [1..Len(blocks) -> RunContents \cup {<<>>}] :
            \A i \in 1..Len(blocks) : new[i] \in FilterOutputs(f, blocks[i])}

\* does f.process(data) raise:  the parser when the document cannot be read
\* or parsed; the output generator at data['text_blocks'] when data is still
\* the path; the correction filters return the path as it is (their
\* `"text_blocks" not in data` test, the try of the TTS normalizer)
ProcessRaises(f, data, parseable) ==
  \/ f \in ParserFilters /\ ~parseable
  \/ f \in OutputGenerators /\ data = "path"

\* does f.process(data) raise inside its loop over the spans: the spelling
\* filter, whose loop has no try, at the span the spell checker fails on
\* (it is not called for an empty content)
RaisesPartWay(f, data, blocks, at) ==
  /\ f = "SpellingCorrectionFilter"
  /\ data = "dict"
  /\ at \in 1..Len(blocks)
  /\ blocks[at] # <<>>

RunFails ==
  \/ ProcessRaises(run_filters[run_no], run_data, parses)
  \/ RaisesPartWay(run_filters[run_no], run_data, run_blocks, raise_at)

\* the spans as the raising filter leaves them: assigned in place up to the
\* span it failed on
LeftByFailure ==
  IF RaisesPartWay(run_filters[run_no], run_data, run_blocks, raise_at)
    THEN SpellFixUpTo(run_blocks, raise_at)
    ELSE run_blocks

run_fixed == <<run_config, run_filters, fail_fast, parses, raise_at>>

\* variant: a failed filter ends the run whatever fail_fast is
RunFilterFailureAborts ==
  /\ run_pc = "run"
  /\ run_no <= Len(run_filters)
  /\ RunFails
  /\ executed' = Append(executed, run_filters[run_no])
  /\ handed' = Append(handed, run_blocks)
  /\ failures' = Append(failures, run_filters[run_no])
  /\ run_blocks' = LeftByFailure
  /\ run_pc' = "raised"
  /\ UNCHANGED <<run_fixed, run_no, run_data, run_written, run_output>>
  /\ UNCHANGED <<stage_vars, path_vars, tree_vars, diff_vars, aux_vars>>

\* variant: a failed filter never ends the run
RunFilterFailureContinues ==
  /\ run_pc = "run"
  /\ run_no <= Len(run_filters)
  /\ RunFails
  /\ executed' = Append(executed, run_filters[run_no])
  /\ handed' = Append(handed, run_blocks)
  /\ failures' = Append(failures, run_filters[run_no])
  /\ run_blocks' = LeftByFailure
  /\ run_no' = run_no + 1
  /\ UNCHANGED <<run_fixed, run_pc, run_data, run_written, run_output>>
  /\ UNCHANGED <<stage_vars, path_vars, tree_vars, diff_vars, aux_vars>>

\* variant: the except clause puts the contents back that
\* original_text_blocks recorded before the call
RunFilterFailsRestoring ==
  /\ run_pc = "run"
  /\ run_no <= Len(run_filters)
  /\ RunFails
  /\ executed' = Append(executed, run_filters[run_no])
  /\ handed' = Append(handed, run_blocks)
  /\ failures' = Append(failures, run_filters[run_no])
  /\ IF fail_fast
       THEN run_pc' = "raised" /\ run_no' = run_no
       ELSE run_pc' = "run" /\ run_no' = run_no + 1
  /\ UNCHANGED <<run_fixed, run_data, run_blocks, run_written, run_output>>
  /\ UNCHANGED <<stage_vars, path_vars, tree_vars, diff_vars, aux_vars>>

InitRun ==
  /\ AuxIdle
  /\ StageIdle
  /\ PathIdle
  /\ TreeIdle
  /\ DiffIdle
  /\ run_config \in Configurations
  /\ \E format \in {"markdown", "epub"} :
       run_filters = get_filters(format, run_config)
  /\ fail_fast \in BOOLEAN
  /\ parses \in BOOLEAN
  /\ raise_at \in 0..MaxSpans
  /\ run_pc = "run"
  /\ run_no = 1
  /\ run_data = "path"
  /\ run_blocks = <<>>
  /\ handed = <<>>
  /\ executed = <<>>
  /\ failures = <<>>
  /\ run_written = FALSE
  /\ run_output = <<>>

\* run(): one pass of the loop in which f.process(data) returns
RunFilterOk ==
  /\ run_pc = "run"
  /\ run_no <= Len(run_filters)
  /\ ~RunFails
  /\ executed' = Append(executed, run_filters[run_no])
  /\ handed' = Append(handed, run_blocks)
  /\ LET f == run_filters[run_no] IN
       IF f \in ParserFilters
         THEN /\ run_data' = "dict"
              /\ run_blocks' \in RunDocuments
              /\ UNCHANGED <<run_written, run_output>>
       ELSE IF f \in OutputGenerators
         THEN /\ run_written' = TRUE
              /\ run_output' = run_blocks
              /\ UNCHANGED <<run_data, run_blocks>>
       ELSE /\ run_blocks' \in
                 (IF run_data = "dict" THEN EditedBy(f, run_blocks)
                  ELSE {run_blocks})
            /\ UNCHANGED <<run_data, run_written, run_output>>
  /\ run_no' = run_no + 1
  /\ UNCHANGED <<run_fixed, run_pc, failures>>
  /\ UNCHANGED <<stage_vars, path_vars, tree_vars, diff_vars, aux_vars>>

\* run(): one pass of the loop in which f.process(data) raises: the except
\* clause logs the failure and raises again only if self.fail_fast; `data`
\* is not assigned and keeps what the filter wrote into its spans
RunFilterFails ==
  /\ run_pc = "run"
  /\ run_no <= Len(run_filters)
  /\ RunFails
  /\ executed' = Append(executed, run_filters[run_no])
  /\ handed' = Append(handed, run_blocks)
  /\ failures' = Append(failures, run_filters[run_no])
  /\ run_blocks' = LeftByFailure
  /\ IF fail_fast
       THEN run_pc' = "raised" /\ run_no' = run_no
       ELSE run_pc' = "run" /\ run_no' = run_no + 1
  /\ UNCHANGED <<run_fixed, run_data, run_written, run_output>>
  /\ UNCHANGED <<stage_vars, path_vars, tree_vars, diff_vars, aux_vars>>

\* run(): `return data` after the loop
RunReturn ==
  /\ run_pc = "run"
  /\ run_no > Len(run_filters)
  /\ run_pc' = "returned"
  /\ UNCHANGED <<run_fixed, run_no, run_data, run_blocks, handed, executed,
                 failures, run_written, run_output>>
  /\ UNCHANGED <<stage_vars, path_vars, tree_vars, diff_vars, aux_vars>>

NextRun ==
  \/ RunFilterOk
  \/ RunFilterFails
  \/ RunReturn

SpecRun == InitRun /\ [][NextRun]_vars

\* ============================================================ the diff engine
\* SpecDiff       DiffEngine.compute_paragraph_diffs over the paragraph lists
\*                of the original and the corrected file.
\* SpecHighlight  DiffEngine.highlight_changes over two texts.
\* Indices of opcodes, matching blocks and highlights are 0-based and ranges
\* half-open, as in the source; a[i] of the source is a[i + 1] here.

\* number of paragraphs of a file
MaxParagraphs == 3
\* number of characters of a text given to highlight_changes
MaxHighlightText == 3

\* a[i:i+size] == b[j:j+size], inside the ranges
CommonRun(a, b, i, j, size, ahi, bhi) ==
  /\ i + size <= ahi
  /\ j + size <= bhi
  /\ \A d \in 0..(size - 1) : a[i + d + 1] = b[j + d + 1]

\* variant: of the longest blocks the one that starts last in a
find_longest_match_latest(a, b, alo, ahi, blo, bhi) ==
  LET runs == {r \in (alo..ahi) \X (blo..bhi) \X (1..(ahi - alo)) :
                 CommonRun(a, b, r[1], r[2], r[3], ahi, bhi)}
  IN IF runs = {} THEN <<alo, blo, 0>>
     ELSE CHOOSE r \in runs :
            \A q \in runs :
              \/ q[3] < r[3]
              \/ q[3] = r[3] /\ q[1] < r[1]
              \/ q[3] = r[3] /\ q[1] = r[1] /\ q[2] <= r[2]

\* SequenceMatcher.find_longest_match without junk: the longest block
\* a[i:i+k] == b[j:j+k] inside a[alo:ahi] and b[blo:bhi]; of the longest ones
\* that starting earliest in a, and of those that starting earliest in b
find_longest_match(a, b, alo, ahi, blo, bhi) ==
  LET runs == {r \in (alo..ahi) \X (blo..bhi) \X (1..(ahi - alo)) :
                 CommonRun(a, b, r[1], r[2], r[3], ahi, bhi)}
  IN IF runs = {} THEN <<alo, blo, 0>>
     ELSE CHOOSE r \in runs :
            \A q \in runs :
              \/ q[3] < r[3]
              \/ q[3] = r[3] /\ q[1] > r[1]
              \/ q[3] = r[3] /\ q[1] = r[1] /\ q[2] >= r[2]

RECURSIVE MatchesIn(_, _, _, _, _, _)
\* get_matching_blocks: the longest block of the range, the blocks to its
\* left and to its right, in sorted order
MatchesIn(a, b, alo, ahi, blo, bhi) ==
  LET x == find_longest_match(a, b, alo, ahi, blo, bhi)
      i == x[1]
      j == x[2]
      size == x[3]
  IN IF size = 0 THEN <<>>
     ELSE (IF alo < i /\ blo < j THEN MatchesIn(a, b, alo, i, blo, j)
           ELSE <<>>)
          \o <<x>>
          \o (IF i + size < ahi /\ j + size < bhi
                THEN MatchesIn(a, b, i + size, ahi, j + size, bhi)
              ELSE <<>>)

RECURSIVE NonAdjacent(_, _)
\* get_matching_blocks: adjacent blocks are merged; `cur` is (i1, j1, k1)
NonAdjacent(blocks, cur) ==
  IF blocks = <<>> THEN (IF cur[3] # 0 THEN <<cur>> ELSE <<>>)
  ELSE LET nxt == Head(blocks) IN
    IF cur[1] + cur[3] = nxt[1] /\ cur[2] + cur[3] = nxt[2]
      THEN NonAdjacent(Tail(blocks),
                       <<cur[1], cur[2], cur[3] + nxt[3]>>)
    ELSE (IF cur[3] # 0 THEN <<cur>> ELSE <<>>)
           \o NonAdjacent(Tail(blocks), nxt)

\* variant: the list of matching blocks without the closing (la, lb, 0)
get_matching_blocks_no_sentinel(a, b) ==
  NonAdjacent(MatchesIn(a, b, 0, Len(a), 0, Len(b)), <<0, 0, 0>>)

\* SequenceMatcher.get_matching_blocks
get_matching_blocks(a, b) ==
  NonAdjacent(MatchesIn(a, b, 0, Len(a), 0, Len(b)), <<0, 0, 0>>)
    \o << <<Len(a), Len(b), 0>> >>

Opcode(tag, i1, i2, j1, j2) ==
  [tag |-> tag, i1 |-> i1, i2 |-> i2, j1 |-> j1, j2 |-> j2]

RECURSIVE OpcodesFrom(_, _, _)
\* get_opcodes: for each matching block, the difference in front of it and
\* then the block itself
OpcodesFrom(blocks, i, j) ==
  IF blocks = <<>> THEN <<>>
  ELSE LET ai == Head(blocks)[1]
           bj == Head(blocks)[2]
           size == Head(blocks)[3]
       IN (IF i < ai /\ j < bj THEN <<Opcode("replace", i, ai, j, bj)>>
           ELSE IF i < ai THEN <<Opcode("delete", i, ai, j, bj)>>
           ELSE IF j < bj THEN <<Opcode("insert", i, ai, j, bj)>>
           ELSE <<>>)
          \o (IF size # 0
                THEN <<Opcode("equal", ai, ai + size, bj, bj + size)>>
              ELSE <<>>)
          \o OpcodesFrom(Tail(blocks), ai + size, bj + size)

\* SequenceMatcher(None, a, b).get_opcodes()
get_opcodes(a, b) == OpcodesFrom(get_matching_blocks(a, b), 0, 0)

\* ------------------------------------------------------- highlight_changes
WordChars == {"a", "b"}

\* word characters, whitespace, and the apostrophe: inside a word part of
\* it, elsewhere punctuation
HighlightChars == WordChars \cup {" ", "'"}

RECURSIVE WordEnd(_, _)
\* end of the run of word characters that starts at position p
WordEnd(text, p) ==
  IF p < Len(text) /\ text[p + 1] \in WordChars THEN WordEnd(text, p + 1)
  ELSE p

Token(text, start, end) ==
  [word |-> SubSeq(text, start + 1, end), start |-> start, end |-> end]

RECURSIVE TokensFrom(_, _)
\* re.finditer of \b\w+(?:'\w+)?\b|[^\w\s] from position p on: a run of word
\* characters, with an apostrophe and a second run if one follows directly,
\* or one character that is neither a word character nor whitespace
TokensFrom(text, p) ==
  IF p >= Len(text) THEN <<>>
  ELSE IF text[p + 1] \in WordChars
    THEN LET e1 == WordEnd(text, p)
             e2 == IF /\ e1 + 1 < Len(text)
                      /\ text[e1 + 1] = "'"
                      /\ text[e1 + 2] \in WordChars
                     THEN WordEnd(text, e1 + 1)
                     ELSE e1
         IN <<Token(text, p, e2)>> \o TokensFrom(text, e2)
  ELSE IF text[p + 1] \in Whitespace THEN TokensFrom(text, p + 1)
  ELSE <<Token(text, p, p + 1)>> \o TokensFrom(text, p + 1)

\* _tokenize_with_positions
tokenize_with_positions(text) == TokensFrom(text, 0)

Words(tokens) == [i \in 1..Len(tokens) |-> tokens[i].word]

\* (start, end, tag) of the tokens lo..hi-1
Marks(tokens, lo, hi, tag) ==
  [i \in 1..(hi - lo) |-> <<tokens[lo + i].start, tokens[lo + i].end, tag>>]

RECURSIVE OriginalMarks(_, _)
\* highlight_changes: the entries the loop adds to original_highlights
OriginalMarks(tokens, ops) ==
  IF ops = <<>> THEN <<>>
  ELSE (IF Head(ops).tag \in {"delete", "replace"}
          THEN Marks(tokens, Head(ops).i1, Head(ops).i2, "delete")
        ELSE <<>>)
       \o OriginalMarks(tokens, Tail(ops))

RECURSIVE CorrectedMarks(_, _)
\* highlight_changes: the entries the loop adds to corrected_highlights
CorrectedMarks(tokens, ops) ==
  IF ops = <<>> THEN <<>>
  ELSE (IF Head(ops).tag \in {"insert", "replace"}
          THEN Marks(tokens, Head(ops).j1, Head(ops).j2, "insert")
        ELSE <<>>)
       \o CorrectedMarks(tokens, Tail(ops))

\* variant: the tokens of equal opcodes are marked as well
highlight_changes_marks_equal(original_text, corrected) ==
  LET original_words == tokenize_with_positions(original_text)
      corrected_words == tokenize_with_positions(corrected)
  IN [original_highlights |->
        Marks(original_words, 0, Len(original_words), "delete"),
      corrected_highlights |->
        Marks(corrected_words, 0, Len(corrected_words), "insert")]

\* highlight_changes
highlight_changes(original_text, corrected) ==
  LET original_words == tokenize_with_positions(original_text)
      corrected_words == tokenize_with_positions(corrected)
      ops == get_opcodes(Words(original_words), Words(corrected_words))
  IN [original_highlights |-> OriginalMarks(original_words, ops),
      corrected_highlights |-> CorrectedMarks(corrected_words, ops)]

\* -------------------------------------------------- compute_paragraph_diffs
\* the paragraphs files are made of: one line each, or two lines
ParagraphTexts == { <<"a">>, <<"b">>, <<"a", "\n", "b">> }

DiffBlock(number, original_text, corrected, change_type, line, hl) ==
  [paragraph_number |-> number, original_text |-> original_text,
   corrected_text |-> corrected, change_type |-> change_type,
   line_number |-> line,
   original_highlights |-> hl.original_highlights,
   corrected_highlights |-> hl.corrected_highlights]

NoHighlights == [original_highlights |-> <<>>, corrected_highlights |-> <<>>]

\* original.count("\n") + 1
LineCount(paragraph) == Count(paragraph, "\n") + 1

RECURSIVE LinesOf(_, _, _)
\* sum of LineCount over the paragraphs lo..hi-1
LinesOf(paragraphs, lo, hi) ==
  IF lo >= hi THEN 0
  ELSE LineCount(paragraphs[lo + 1]) + LinesOf(paragraphs, lo + 1, hi)

InitDiff ==
  /\ AuxIdle
  /\ StageIdle
  /\ PathIdle
  /\ TreeIdle
  /\ RunIdle
  /\ original_paragraphs \in SeqsUpTo(ParagraphTexts, MaxParagraphs)
  /\ corrected_paragraphs \in SeqsUpTo(ParagraphTexts, MaxParagraphs)
  /\ opcodes = <<>>
  /\ op_no = 1
  /\ diff_blocks = <<>>
  /\ paragraph_number = 0
  /\ line_number = 1
  /\ diff_pc = "start"
  /\ hl_original = <<>>
  /\ hl_corrected = <<>>
  /\ original_highlights = <<>>
  /\ corrected_highlights = <<>>

hl_vars ==
  <<hl_original, hl_corrected, original_highlights, corrected_highlights>>

\* matcher = difflib.SequenceMatcher(None, original_paragraphs,
\* corrected_paragraphs); matcher.get_opcodes()
DiffMatcher ==
  /\ diff_pc = "start"
  /\ opcodes' = get_opcodes(original_paragraphs, corrected_paragraphs)
  /\ diff_pc' = "loop"
  /\ UNCHANGED <<original_paragraphs, corrected_paragraphs, op_no,
                 diff_blocks, paragraph_number, line_number, hl_vars>>
  /\ UNCHANGED <<stage_vars, path_vars, tree_vars, run_vars, aux_vars>>

AtOpcode(tag) ==
  /\ diff_pc = "loop"
  /\ op_no <= Len(opcodes)
  /\ opcodes[op_no].tag = tag

\* tag == "equal": the paragraphs are counted, no block is added
DiffEqual ==
  /\ AtOpcode("equal")
  /\ LET op == opcodes[op_no] IN
       /\ paragraph_number' = paragraph_number + (op.i2 - op.i1)
       /\ line_number' =
            line_number + LinesOf(original_paragraphs, op.i1, op.i2)
  /\ op_no' = op_no + 1
  /\ UNCHANGED <<original_paragraphs, corrected_paragraphs, opcodes,
                 diff_blocks, diff_pc, hl_vars>>
  /\ UNCHANGED <<stage_vars, path_vars, tree_vars, run_vars, aux_vars>>

\* variant: a replace opcode pairs the paragraphs and then reports the
\* paragraphs left over on the longer side as deleted or added
ReplaceBlocksAll(op, number, line) ==
  LET n == Min(op.i2 - op.i1, op.j2 - op.j1)
      pairs ==
        [d \in 1..n |->
           DiffBlock(number + d, original_paragraphs[op.i1 + d],
                     corrected_paragraphs[op.j1 + d], "modified",
                     line + LinesOf(original_paragraphs, op.i1,
                                    op.i1 + d - 1),
                     highlight_changes(original_paragraphs[op.i1 + d],
                                       corrected_paragraphs[op.j1 + d]))]
      deleted ==
        [d \in 1..(op.i2 - op.i1 - n) |->
           DiffBlock(number + n + d, original_paragraphs[op.i1 + n + d],
                     <<>>, "deleted",
                     line + LinesOf(original_paragraphs, op.i1,
                                    op.i1 + n + d - 1), NoHighlights)]
      added ==
        [d \in 1..(op.j2 - op.j1 - n) |->
           DiffBlock(number + n + d, <<>>,
                     corrected_paragraphs[op.j1 + n + d], "added",
                     line + LinesOf(original_paragraphs, op.i1, op.i2),
                     NoHighlights)]
  IN pairs \o deleted \o added

\* tag == "replace": one block for each pair of zip(range(i1, i2),
\* range(j1, j2)), which stops at the end of the shorter range
ReplaceBlocks(op, number, line) ==
  LET n == Min(op.i2 - op.i1, op.j2 - op.j1) IN
    [d \in 1..n |->
       DiffBlock(number + d, original_paragraphs[op.i1 + d],
                 corrected_paragraphs[op.j1 + d], "modified",
                 line + LinesOf(original_paragraphs, op.i1, op.i1 + d - 1),
                 highlight_changes(original_paragraphs[op.i1 + d],
                                   corrected_paragraphs[op.j1 + d]))]

DiffReplace ==
  /\ AtOpcode("replace")
  /\ LET op == opcodes[op_no]
         new == ReplaceBlocks(op, paragraph_number, line_number)
         n == Min(op.i2 - op.i1, op.j2 - op.j1)
     IN
       /\ diff_blocks' = diff_blocks \o new
       /\ paragraph_number' = paragraph_number + n
       /\ line_number' =
            line_number + LinesOf(original_paragraphs, op.i1, op.i1 + n)
  /\ op_no' = op_no + 1
  /\ UNCHANGED <<original_paragraphs, corrected_paragraphs, opcodes,
                 diff_pc, hl_vars>>
  /\ UNCHANGED <<stage_vars, path_vars, tree_vars, run_vars, aux_vars>>

\* tag == "delete": one block for each original paragraph of the range
DiffDelete ==
  /\ AtOpcode("delete")
  /\ LET op == opcodes[op_no] IN
       /\ diff_blocks' = diff_blocks \o
            [d \in 1..(op.i2 - op.i1) |->
               DiffBlock(paragraph_number + d,
                         original_paragraphs[op.i1 + d], <<>>, "deleted",
                         line_number + LinesOf(original_paragraphs, op.i1,
                                               op.i1 + d - 1),
                         NoHighlights)]
       /\ paragraph_number' = paragraph_number + (op.i2 - op.i1)
       /\ line_number' =
            line_number + LinesOf(original_paragraphs, op.i1, op.i2)
  /\ op_no' = op_no + 1
  /\ UNCHANGED <<original_paragraphs, corrected_paragraphs, opcodes,
                 diff_pc, hl_vars>>
  /\ UNCHANGED <<stage_vars, path_vars, tree_vars, run_vars, aux_vars>>

\* tag == "insert": one block for each corrected paragraph of the range; the
\* line number stays
DiffInsert ==
  /\ AtOpcode("insert")
  /\ LET op == opcodes[op_no] IN
       /\ diff_blocks' = diff_blocks \o
            [d \in 1..(op.j2 - op.j1) |->
               DiffBlock(paragraph_number + d, <<>>,
                         corrected_paragraphs[op.j1 + d], "added",
                         line_number, NoHighlights)]
       /\ paragraph_number' = paragraph_number + (op.j2 - op.j1)
  /\ op_no' = op_no + 1
  /\ UNCHANGED <<original_paragraphs, corrected_paragraphs, opcodes,
                 line_number, diff_pc, hl_vars>>
  /\ UNCHANGED <<stage_vars, path_vars, tree_vars, run_vars, aux_vars>>

\* return diff_blocks
DiffReturn ==
  /\ diff_pc = "loop"
  /\ op_no > Len(opcodes)
  /\ diff_pc' = "returned"
  /\ UNCHANGED <<original_paragraphs, corrected_paragraphs, opcodes, op_no,
                 diff_blocks, paragraph_number, line_number, hl_vars>>
  /\ UNCHANGED <<stage_vars, path_vars, tree_vars, run_vars, aux_vars>>

NextDiff ==
  \/ DiffMatcher
  \/ DiffEqual
  \/ DiffReplace
  \/ DiffDelete
  \/ DiffInsert
  \/ DiffReturn

SpecDiff == InitDiff /\ [][NextDiff]_vars

\* the texts highlight_changes is called with
HighlightTexts == SeqsUpTo(HighlightChars, MaxHighlightText)

InitHighlight ==
  /\ AuxIdle
  /\ StageIdle
  /\ PathIdle
  /\ TreeIdle
  /\ RunIdle
  /\ original_paragraphs = <<>>
  /\ corrected_paragraphs = <<>>
  /\ opcodes = <<>>
  /\ op_no = 1
  /\ diff_blocks = <<>>
  /\ paragraph_number = 0
  /\ line_number = 1
  /\ diff_pc = "highlight"
  /\ hl_original \in HighlightTexts
  /\ hl_corrected \in HighlightTexts
  /\ original_highlights = <<>>
  /\ corrected_highlights = <<>>

\* highlight_changes(original, corrected)
HighlightChanges ==
  /\ diff_pc = "highlight"
  /\ LET result == highlight_changes(hl_original, hl_corrected) IN
       /\ original_highlights' = result.original_highlights
       /\ corrected_highlights' = result.corrected_highlights
  /\ diff_pc' = "highlighted"
  /\ UNCHANGED <<original_paragraphs, corrected_paragraphs, opcodes, op_no,
                 diff_blocks, paragraph_number, line_number, hl_original,
                 hl_corrected>>
  /\ UNCHANGED <<stage_vars, path_vars, tree_vars, run_vars, aux_vars>>

NextHighlight == HighlightChanges

SpecHighlight == InitHighlight /\ [][NextHighlight]_vars

\* ======================================================= _split_paragraphs
(***************************************************************************)
(* SpecSplit  DiffEngine._split_paragraphs called on one text.             *)
(***************************************************************************)
\* longest text handed to _split_paragraphs
MaxSplitText == 4

SplitChars == {"a", " ", "\n"}

SplitTexts == SeqsUpTo(SplitChars, MaxSplitText)


RECURSIVE SplitLines(_)
\* Python str.splitlines() of a text whose only line break is "\n"
SplitLines(s) ==
  IF s = <<>> THEN <<>>
  ELSE IF \E i \in 1..Len(s) : s[i] = "\n"
    THEN LET i == CHOOSE x \in 1..Len(s) :
                    s[x] = "\n" /\ \A y \in 1..(x - 1) : s[y] # "\n"
         IN <<SubSeq(s, 1, i - 1)>> \o SplitLines(SubSeq(s, i + 1, Len(s)))
  ELSE <<s>>

\* "\n".join(lines)
RECURSIVE JoinLines(_)
JoinLines(lines) ==
  IF lines = <<>> THEN <<>>
  ELSE IF Len(lines) = 1 THEN Head(lines)
  ELSE Head(lines) \o <<"\n">> \o JoinLines(Tail(lines))

\* a variant that trims each paragraph it appends
RECURSIVE SplitFromTrimmed(_, _)
SplitFromTrimmed(lines, current) ==
  LET flush == IF current # <<>> THEN <<Strip(JoinLines(current))>> ELSE <<>>
  IN IF lines = <<>> THEN flush
     ELSE IF Strip(Head(lines)) # <<>>
       THEN SplitFromTrimmed(Tail(lines), Append(current, Head(lines)))
     ELSE flush \o SplitFromTrimmed(Tail(lines), <<>>)

\* the loop over text.splitlines() with `current`, and the flush after it
RECURSIVE SplitFrom(_, _)
SplitFrom(lines, current) ==
  LET flush == IF current # <<>> THEN <<JoinLines(current)>> ELSE <<>>
  IN IF lines = <<>> THEN flush
     ELSE IF Strip(Head(lines)) # <<>>
       THEN SplitFrom(Tail(lines), Append(current, Head(lines)))
     ELSE flush \o SplitFrom(Tail(lines), <<>>)

split_paragraphs(text) == SplitFrom(SplitLines(text), <<>>)

InitSplit ==
  /\ StageIdle
  /\ PathIdle
  /\ TreeIdle
  /\ RunIdle
  /\ DiffIdle
  /\ EpubIdle
  /\ CacheIdle
  /\ split_text \in SplitTexts
  /\ paragraphs_out = <<>>
  /\ split_pc = "call"

SplitParagraphs ==
  /\ split_pc = "call"
  /\ paragraphs_out' = split_paragraphs(split_text)
  /\ split_pc' = "returned"
  /\ UNCHANGED <<stage_vars, path_vars, tree_vars, run_vars, diff_vars,
                 epub_vars, cache_vars, split_text>>

NextSplit == SplitParagraphs

SpecSplit == InitSplit /\ [][NextSplit]_vars

\* ============================================================ the EPUB parser
(***************************************************************************)
(* SpecEpub  EpubParserFilter.process over the paragraph elements of the   *)
(*           document items of one book.  A paragraph is the list of its   *)
(*           children, strings and inline elements; BeautifulSoup's        *)
(*           Tag.string is the single string of an element with exactly    *)
(*           one child (looked up through a single child element) and None *)
(*           otherwise.                                                    *)
(***************************************************************************)
\* most paragraph elements in a book
MaxEpubParagraphs == 3

NavigableString(value) == [name |-> "#text", string |-> value, contents |-> <<>>]

Element(name, contents) == [name |-> name, string |-> <<>>, contents |-> contents]

\* the children of a paragraph element
ParagraphContents ==
  { <<>>,
    <<NavigableString(<<"a">>)>>,
    <<NavigableString(<<" ">>)>>,
    <<Element("em", <<NavigableString(<<"a">>)>>)>>,
    <<NavigableString(<<"a">>), Element("em", <<NavigableString(<<"a">>)>>)>>,
    <<Element("em", <<NavigableString(<<"a">>)>>),
      Element("em", <<NavigableString(<<"a">>)>>)>> }

ItemNames == {"c1", "c2"}

\* the paragraph elements of a book in the order find_all meets them, the
\* document items in the order of the book
Books ==
  { book \in SeqsUpTo([item_name : ItemNames, contents : ParagraphContents],
                      MaxEpubParagraphs) :
      \A i \in 1..(Len(book) - 1) :
        book[i].item_name = "c2" => book[i + 1].item_name = "c2" }

\* Tag.get_text(): the strings of all descendants joined
RECURSIVE get_text(_)
get_text(contents) ==
  IF contents = <<>> THEN <<>>
  ELSE (IF Head(contents).name = "#text" THEN Head(contents).string
        ELSE get_text(Head(contents).contents))
       \o get_text(Tail(contents))

\* Tag.string; None is the empty text
RECURSIVE TagString(_)
TagString(contents) ==
  IF Len(contents) # 1 THEN <<>>
  ELSE IF contents[1].name = "#text" THEN contents[1].string
  ELSE TagString(contents[1].contents)

\* the loop over the document items and their find_all('p')
RECURSIVE EpubBlocksFrom(_, _)
EpubBlocksFrom(book, n) ==
  IF n > Len(book) THEN <<>>
  ELSE (IF Strip(TagString(book[n].contents)) # <<>>
          THEN <<[content |-> Strip(TagString(book[n].contents)),
                  element |-> n, item_name |-> book[n].item_name]>>
          ELSE <<>>)
       \o EpubBlocksFrom(book, n + 1)

InitEpub ==
  /\ SplitIdle
  /\ CacheIdle
  /\ StageIdle
  /\ PathIdle
  /\ TreeIdle
  /\ RunIdle
  /\ DiffIdle
  /\ epub_book \in Books
  /\ epub_blocks = <<>>
  /\ epub_pc = "call"

EpubParserProcess ==
  /\ epub_pc = "call"
  /\ epub_blocks' = EpubBlocksFrom(epub_book, 1)
  /\ epub_pc' = "returned"
  /\ UNCHANGED <<stage_vars, path_vars, tree_vars, run_vars, diff_vars,
                 split_vars, cache_vars, epub_book>>

NextEpub == EpubParserProcess

SpecEpub == InitEpub /\ [][NextEpub]_vars

\* ================================================== the LanguageTool cache
(***************************************************************************)
(* SpecCache  threads calling get_language_tool() and                      *)
(*            reset_language_tool_cache(): the module-level _cache_lock    *)
(*            and _cached_tool.  A build is the time between the test of   *)
(*            _cached_tool and the assignment of the pair built.           *)
(***************************************************************************)
\* calls the threads make in all
MaxCacheCalls == 3

CacheThreads == {"t1", "t2", "t3"}

Backends == {"java", "public_api", "disabled"}

\* _cached_tool = None
NoTool == [tool |-> 0, backend |-> "none"]

IdleThread == [at |-> "idle", force_refresh |-> FALSE]

At(t, place) == cache_thread[t].at = place

Move(t, place) == cache_thread' = [cache_thread EXCEPT ![t].at = place]

\* a call of get_language_tool(force_refresh=force) starts
GetCall(t) ==
  /\ At(t, "idle")
  /\ cache_hist.calls < MaxCacheCalls
  /\ \E force \in BOOLEAN :
       cache_thread' =
         [cache_thread EXCEPT ![t] = [at |-> "get", force_refresh |-> force]]
  /\ cache_hist' = [cache_hist EXCEPT !.calls = @ + 1]
  /\ UNCHANGED <<cache_lock, cached_tool>>
  /\ UNCHANGED <<stage_vars, path_vars, tree_vars, run_vars, diff_vars,
                 split_vars, epub_vars>>

\* variant: the test and the build run without the lock
GetEnterUnlocked(t) ==
  /\ At(t, "get")
  /\ IF cache_thread[t].force_refresh \/ cached_tool = NoTool
       THEN Move(t, "building")
       ELSE Move(t, "cached")
  /\ cache_hist' =
       IF cache_thread[t].force_refresh
         THEN [cache_hist EXCEPT !.builds = 0, !.received = {}]
         ELSE cache_hist
  /\ UNCHANGED <<cache_lock, cached_tool>>
  /\ UNCHANGED <<stage_vars, path_vars, tree_vars, run_vars, diff_vars,
                 split_vars, epub_vars>>

\* `with _cache_lock:` is entered and `force_refresh or _cached_tool is
\* None` is tested; a forced refresh starts a new cache
GetEnter(t) ==
  /\ At(t, "get")
  /\ cache_lock = "free"
  /\ cache_lock' = t
  /\ IF cache_thread[t].force_refresh \/ cached_tool = NoTool
       THEN Move(t, "building")
       ELSE Move(t, "cached")
  /\ cache_hist' =
       IF cache_thread[t].force_refresh
         THEN [cache_hist EXCEPT !.builds = 0, !.received = {}]
         ELSE cache_hist
  /\ UNCHANGED cached_tool
  /\ UNCHANGED <<stage_vars, path_vars, tree_vars, run_vars, diff_vars,
                 split_vars, epub_vars>>

\* _cached_tool = _build_language_tool(logger): a new client, or
\* (None, "disabled")
GetBuild(t) ==
  /\ At(t, "building")
  /\ \E backend \in Backends :
       cached_tool' = [tool |-> cache_hist.built + 1, backend |-> backend]
  /\ cache_hist' = [cache_hist EXCEPT !.built = @ + 1, !.builds = @ + 1]
  /\ Move(t, "cached")
  /\ UNCHANGED cache_lock
  /\ UNCHANGED <<stage_vars, path_vars, tree_vars, run_vars, diff_vars,
                 split_vars, epub_vars>>

\* return _cached_tool, leaving the with block
GetReturn(t) ==
  /\ At(t, "cached")
  /\ cache_hist' = [cache_hist EXCEPT !.received = @ \cup {cached_tool}]
  /\ cache_lock' = IF cache_lock = t THEN "free" ELSE cache_lock
  /\ cache_thread' = [cache_thread EXCEPT ![t] = IdleThread]
  /\ UNCHANGED cached_tool
  /\ UNCHANGED <<stage_vars, path_vars, tree_vars, run_vars, diff_vars,
                 split_vars, epub_vars>>

\* a call of reset_language_tool_cache() starts
ResetCall(t) ==
  /\ At(t, "idle")
  /\ cache_hist.calls < MaxCacheCalls
  /\ Move(t, "reset")
  /\ cache_hist' = [cache_hist EXCEPT !.calls = @ + 1]
  /\ UNCHANGED <<cache_lock, cached_tool>>
  /\ UNCHANGED <<stage_vars, path_vars, tree_vars, run_vars, diff_vars,
                 split_vars, epub_vars>>

\* reset: `with _cache_lock:` is entered
ResetEnter(t) ==
  /\ At(t, "reset")
  /\ cache_lock = "free"
  /\ cache_lock' = t
  /\ Move(t, "resetting")
  /\ UNCHANGED <<cached_tool, cache_hist>>
  /\ UNCHANGED <<stage_vars, path_vars, tree_vars, run_vars, diff_vars,
                 split_vars, epub_vars>>

\* reset: _cached_tool = None, leaving the with block
ResetClear(t) ==
  /\ At(t, "resetting")
  /\ cached_tool' = NoTool
  /\ cache_hist' = [cache_hist EXCEPT !.builds = 0, !.received = {}]
  /\ cache_lock' = "free"
  /\ Move(t, "idle")
  /\ UNCHANGED <<stage_vars, path_vars, tree_vars, run_vars, diff_vars,
                 split_vars, epub_vars>>

InitCache ==
  /\ SplitIdle
  /\ EpubIdle
  /\ StageIdle
  /\ PathIdle
  /\ TreeIdle
  /\ RunIdle
  /\ DiffIdle
  /\ cache_lock = "free"
  /\ cached_tool = NoTool
  /\ cache_thread = [t \in CacheThreads |-> IdleThread]
  /\ cache_hist = [calls |-> 0, built |-> 0, builds |-> 0, received |-> {}]

NextCache ==
  \E t \in CacheThreads :
    \/ GetCall(t)
    \/ GetEnter(t)
    \/ GetBuild(t)
    \/ GetReturn(t)
    \/ ResetCall(t)
    \/ ResetEnter(t)
    \/ ResetClear(t)

SpecCache == InitCache /\ [][NextCache]_vars

\* ======================================================== properties
\* the rule ids the safe filter accepts, by the counter they are counted under
CategoryRules ==
  [typos_fixed |-> {"MORFOLOGIK_RULE_EN_US", "ENGLISH_WORD_REPEAT_RULE"},
   punctuation_fixed |->
     {"COMMA_PARENTHESIS_WHITESPACE", "EN_QUOTES", "UNPAIRED_BRACKETS"},
   spacing_fixed |-> {"WHITESPACE_RULE", "SENTENCE_WHITESPACE"},
   casing_fixed |-> {"UPPERCASE_SENTENCE_START"},
   simple_agreement_fixed |-> {"PERSPECTIVE_AGREEMENT"}]

AllowList == UNION {CategoryRules[key] : key \in StatKeys}

\* a match the Applier has to keep: allow-listed, with a replacement candidate
IsKept(m) == m.ruleId \in AllowList /\ m.replacements # <<>>

NoneKept(ms) == \A i \in 1..Len(ms) : ~IsKept(ms[i])

\* the ranges [offset, offset + errorLength) of two matches intersect
Overlap(m1, m2) ==
  /\ m1.offset < m2.offset + m2.errorLength
  /\ m2.offset < m1.offset + m1.errorLength

PairwiseDisjoint(ms) ==
  \A i, j \in 1..Len(ms) : i < j => ~Overlap(ms[i], ms[j])

MarkersDiffer(t1, t2) ==
  \E c \in {"[", "]", "(", ")", "backtick"} : Count(t1, c) # Count(t2, c)

SafeCallReturned == stage = "safe" /\ pc = "ret" /\ log[idx].status = "ok"

\* C1 (stated as claimed): when a kept match is about to be applied, every
\* match applied before it has a strictly greater offset, and the characters
\* of the working text in the match's range are those of the original span.
C1_AppliedDescendingOnIntactRange ==
  (stage = "safe" /\ pc = "apply" /\ k <= Len(safe_matches)) =>
    LET m == safe_matches[k].match IN
      /\ \A i \in 1..(k - 1) : safe_matches[i].match.offset > m.offset
      /\ Slice(corrected_text, m.offset, m.offset + m.errorLength)
           = Slice(text_blocks[idx], m.offset, m.offset + m.errorLength)

\* C2 (stated as claimed): the matches of an accepted (not reverted) result
\* cover pairwise disjoint ranges of the original span text.
C2_AppliedMatchesDisjoint ==
  (SafeCallReturned /\ ret_stats # ZeroStats) => PairwiseDisjoint(applied)

RECURSIVE ApplyAll(_, _)
ApplyAll(text, items) ==
  IF items = <<>> THEN text
  ELSE ApplyAll(ApplyReplacement(text, Head(items).match), Tail(items))

\* C3: under the safe filter every block's content is, in every state, either
\* its original content or (once the block has been handled) the text with
\* all kept matches of the block applied; no block ever holds a text with
\* only some of them applied.
C3_NoPartialApplication ==
  stage = "safe" =>
    \A b \in 1..Len(text_blocks) :
      \/ text_blocks[b] = original[b]
      \/ /\ b < idx
         /\ log[b].status = "ok"
         /\ text_blocks[b] =
              ApplyAll(original[b], SortByOffsetDesc(FilterSafe(log[b].matches)))

C3_Witness ==
  /\ stage = "safe"
  /\ idx > 1
  /\ Len(FilterSafe(log[1].matches)) = 2
  /\ text_blocks[1] # original[1]
  /\ text_blocks[1] =
       ApplyAll(original[1], SortByOffsetDesc(FilterSafe(log[1].matches)))

\* C4: when the marker counts of the original and the edited text differ,
\* _process_text returns the original text with all counters zero, and the
\* assignment in process() then leaves every block and total_stats as they were.
C4_RevertAtomicity ==
  [][ /\ ( /\ stage = "safe"
           /\ pc = "apply"
           /\ pc' = "ret"
           /\ MarkersDiffer(text_blocks[idx], corrected_text) )
         => (ret_text' = text_blocks[idx] /\ ret_stats' = ZeroStats)
      /\ ( /\ SafeCallReturned
           /\ MarkersDiffer(text_blocks[idx], corrected_text) )
         => (text_blocks' = text_blocks /\ total_stats' = total_stats)
    ]_vars

C4_Witness ==
  /\ SafeCallReturned
  /\ Len(applied) = 2
  /\ MarkersDiffer(text_blocks[idx], corrected_text)
  /\ ret_text = text_blocks[idx]
  /\ ret_text # corrected_text

\* C5: every applied match is allow-listed and has a replacement candidate and
\* is one of the engine's matches; each counter equals the number of applied
\* matches of its category, the returned counters never exceed them, and
\* with nothing applied the text is the original.
C5_OnlySafeMatchesAppliedAndCounted ==
  stage = "safe" =>
    /\ \A i \in 1..Len(applied) :
         /\ IsKept(applied[i])
         /\ \E j \in 1..Len(matches) : matches[j] = applied[i]
    /\ \A key \in StatKeys :
         /\ stats[key] =
              Cardinality({i \in 1..Len(applied) :
                             applied[i].ruleId \in CategoryRules[key]})
         /\ ret_stats[key] <= stats[key]
    /\ SafeCallReturned => ret_text \in {text_blocks[idx], corrected_text}
    /\ (applied = <<>> /\ (pc = "apply" \/ SafeCallReturned)) =>
         corrected_text = text_blocks[idx]

C5_Witness ==
  /\ SafeCallReturned
  /\ Len(matches) = 2
  /\ Len(applied) = 1
  /\ ret_text # text_blocks[idx]
  /\ \E i \in 1..2 :
       matches[i].ruleId \notin AllowList /\ matches[i].replacements # <<>>

RECURSIVE SumDelta(_)
SumDelta(ms) ==
  IF ms = <<>> THEN 0
  ELSE Len(Head(ms).replacements[1]) - Head(ms).errorLength + SumDelta(Tail(ms))

\* the original text read left to right, each matched range replaced by the
\* first candidate of its match, everything else copied
RECURSIVE Rebuild(_, _, _)
Rebuild(text, p, ms) ==
  IF p >= Len(text) THEN <<>>
  ELSE IF \E i \in 1..Len(ms) : ms[i].offset = p
    THEN LET m == ms[CHOOSE i \in 1..Len(ms) : ms[i].offset = p]
         IN  m.replacements[1] \o Rebuild(text, p + m.errorLength, ms)
    ELSE <<text[p + 1]>> \o Rebuild(text, p + 1, ms)

\* C6: when the kept matches of the engine's list are pairwise disjoint, the
\* edited text has length original + sum(len(replacement) - len(match)) and is
\* the original with exactly the matched ranges replaced.
C6_OffsetSafety ==
  LET kept == SelectSeq(matches, IsKept) IN
    (SafeCallReturned /\ PairwiseDisjoint(kept)) =>
      /\ Len(corrected_text) = Len(text_blocks[idx]) + SumDelta(kept)
      /\ corrected_text = Rebuild(text_blocks[idx], 0, kept)

C6_Witness ==
  /\ SafeCallReturned
  /\ Len(applied) = 2
  /\ PairwiseDisjoint(applied)
  /\ applied[1].offset > applied[2].offset
  /\ Len(corrected_text) # Len(text_blocks[idx])
  /\ ret_text = corrected_text

\* C7: when no match of the engine's list is kept (empty list included) the
\* Applier returns the original text and five zero counters, the block keeps
\* its content, and a run in which this holds of all blocks counts nothing.
C7_NoKeptMatchesIsIdentity ==
  stage = "safe" =>
    /\ (SafeCallReturned /\ NoneKept(matches)) =>
         /\ ret_text = original[idx]
         /\ ret_stats = [key \in StatKeys |-> 0]
    /\ \A b \in 1..Len(text_blocks) :
         (b < idx /\ NoneKept(log[b].matches)) => text_blocks[b] = original[b]
    /\ (\A b \in 1..Len(text_blocks) : b < idx => NoneKept(log[b].matches))
         => total_stats = [key \in StatKeys |-> 0]

C7_Witness ==
  /\ stage = "safe"
  /\ pc = "done"
  /\ Len(text_blocks) = 1
  /\ log[1].status = "ok"
  /\ Len(log[1].matches) = 2
  /\ NoneKept(log[1].matches)
  /\ text_blocks[1] = original[1]

\* C8: no exception leaves process(); a block whose engine call failed keeps
\* its original content and returns zero counters; failed, skipped and
\* disabled blocks add nothing to the counters; the run goes on after a
\* failure and ends with every block handled.
C8_FailureLeavesSpanUnchanged ==
  /\ pc # "escaped"
  /\ pc # "done" => ENABLED Next
  /\ \A b \in 1..Len(text_blocks) :
       log[b].status = "failed" => text_blocks[b] = original[b]
  /\ (pc = "ret" /\ log[idx].status = "failed") =>
       (ret_text = original[idx] /\ ret_stats = ZeroStats)
  /\ (\A b \in 1..Len(text_blocks) : log[b].status # "ok") =>
       /\ total_stats = ZeroStats
       /\ rw_stats.corrections_made = 0
       /\ rw_local.corrections_made = 0
  /\ pc = "done" => \A b \in 1..Len(text_blocks) : log[b].status # "none"

C8_Witness ==
  /\ stage = "safe"
  /\ pc = "done"
  /\ Len(text_blocks) = 2
  /\ log[1].status = "failed"
  /\ log[2].status = "ok"
  /\ text_blocks[2] # original[2]

\* C9: one _check_with_retry call makes at most 3 engine calls, returns at the
\* first success, sleeps 500 ms then 1000 ms between attempts and not after
\* the last one, and raises after the third failure.
C9_BoundedRetry ==
  stage = "safe" =>
    /\ calls <= 3
    /\ slept \in {<<>>, <<500>>, <<500, 1000>>}
    /\ pc = "check" => (attempt \in 1..3 /\ calls = attempt - 1
                        /\ Len(slept) = calls)
    /\ pc = "checked" => calls = Len(slept) + 1
    /\ pc = "raised" => (calls = 3 /\ slept = <<500, 1000>>)

C9_Witness ==
  /\ stage = "safe"
  /\ pc = "raised"
  /\ calls = 3
  /\ slept = <<500, 1000>>


\* C10 (stated as claimed): the file written for an accepted input is named
\* stem + "_corrected" + the original extension, is another path than the
\* input, and the input file is not among the files written.
C10_OutputBesideInput ==
  path_pc = "written" =>
    /\ output_filepath =
         SplitExt(input_filepath).root \o CorrectedSuffix
           \o SplitExt(input_filepath).ext
    /\ output_filepath # input_filepath
    /\ input_filepath \notin written

\* ------------------------------------------- properties of the markdown tree
RECURSIVE Subtree(_, _)
\* a node and everything below it
Subtree(t, n) ==
  {n} \cup UNION {Subtree(t, t[n].children[i]) : i \in 1..Len(t[n].children)}

\* the reference <<element, is_tail>> of a block
Ref(block) == <<block.element, block.is_tail>>

\* pre-order of two references: a node's text before everything below it and
\* before its tail, everything below a node before the node's tail, and an
\* earlier child with all below it and its tail before a later child
PreOrderBefore(t, r, s) ==
  LET n == r[1]
      m == s[1] IN
  IF n = m THEN ~r[2] /\ s[2]
  ELSE IF m \in Subtree(t, n) THEN ~r[2]
  ELSE IF n \in Subtree(t, m) THEN s[2]
  ELSE \E p \in Nodes : \E a, b \in 1..Len(t[p].children) :
         /\ a < b
         /\ n \in Subtree(t, t[p].children[a])
         /\ m \in Subtree(t, t[p].children[b])

\* the references a span has to be emitted for
NonBlankRefs(t) ==
  {<<n, FALSE>> : n \in {x \in Nodes : Strip(t[x].text) # <<>>}}
    \cup {<<n, TRUE>> :
            n \in {x \in Nodes \ {RootNode} : Strip(t[x].tail) # <<>>}}

\* C13: once the extractor has run, the span list holds exactly one span for
\* every text and every tail that is non-empty after trimming, its content
\* the trimmed text, the spans are in pre-order (a node's text, then each
\* child's spans followed by that child's tail), and the references of the
\* spans and their order stay as extracted through the correction filters up
\* to reinsertion.
C13_SpansInPreOrder ==
  tree_pc \in {"filters", "output", "written"} =>
    /\ {Ref(extracted_blocks[i]) : i \in 1..Len(extracted_blocks)}
         = NonBlankRefs(parsed_tree)
    /\ Len(extracted_blocks) = Cardinality(NonBlankRefs(parsed_tree))
    /\ \A i \in 1..Len(extracted_blocks) :
         extracted_blocks[i].content =
           Strip(IF extracted_blocks[i].is_tail
                   THEN parsed_tree[extracted_blocks[i].element].tail
                   ELSE parsed_tree[extracted_blocks[i].element].text)
    /\ \A i, j \in 1..Len(extracted_blocks) :
         i < j => PreOrderBefore(parsed_tree, Ref(extracted_blocks[i]),
                                 Ref(extracted_blocks[j]))
    /\ Len(data_blocks) = Len(extracted_blocks)
    /\ \A i \in 1..Len(data_blocks) :
         Ref(data_blocks[i]) = Ref(extracted_blocks[i])

\* a tail span between the spans of a child and of the next sibling, after a
\* correction, at reinsertion
C13_Witness ==
  /\ tree_pc = "output"
  /\ corrections > 0
  /\ Len(data_blocks) = 3
  /\ \E i \in 1..Len(data_blocks) :
       data_blocks[i].is_tail /\ i > 1 /\ i < Len(data_blocks)

\* the blocks the output generator has written back so far
WrittenBack ==
  IF tree_pc \in {"output", "written"}
    THEN {i \in 1..Len(data_blocks) : i < write_no}
    ELSE {}

\* C11 (stated as claimed): a block written back leaves its content in the
\* element's text, or (after the separating space) in the element's tail;
\* a tail block whose content has become empty leaves exactly one space as
\* the element's tail.
C11_EmptyTailLeavesOneSpace ==
  \A i \in WrittenBack :
    LET block == data_blocks[i] IN
      IF ~block.is_tail THEN tree[block.element].text = block.content
      ELSE IF block.content # <<>>
        THEN tree[block.element].tail = <<" ">> \o block.content
      ELSE tree[block.element].tail = <<" ">>

\* the comparison of test_markdown_round_trip: the non-blank lines, trimmed
NormalizedLines(s) ==
  LET lines == SplitLines(Strip(s))
      stripped == [i \in 1..Len(lines) |-> Strip(lines[i])]
  IN SelectSeq(stripped, LAMBDA line : line # <<>>)

\* C12 (stated as claimed): when no filter changes a span, the text the
\* output generator writes equals the serialized content of the tree as
\* parsed, apart from leading and trailing whitespace of lines and blank
\* lines.
C12_RoundTripStable ==
  (tree_pc = "written" /\ corrections = 0) =>
    NormalizedLines(markdown_content)
      = NormalizedLines(serialize_children(parsed_tree, RootNode))

ParseFailed ==
  \E i \in 1..Len(failures) : failures[i] \in ParserFilters

\* C15 (stated as claimed): once the parser has failed the run is aborted:
\* run() has raised, the parser is the only filter whose process() was
\* called, `data` is not a parsed document and no output file is written,
\* with fail_fast true and with fail_fast false.
C15_ParseFailureAbortsRun ==
  ParseFailed =>
    /\ run_pc = "raised"
    /\ Len(executed) = 1
    /\ run_data = "path"
    /\ ~run_written

\* ------------------------------------------ properties of the diff engine
DiffStarted == diff_pc \in {"loop", "returned"}

\* the opcodes whose range of original (side 1) or corrected (side 2)
\* indices holds index x
OpcodesCovering(ops, side, x) ==
  {n \in 1..Len(ops) :
     IF side = 1 THEN ops[n].i1 <= x /\ x < ops[n].i2
     ELSE ops[n].j1 <= x /\ x < ops[n].j2}

\* C17: the opcodes compute_paragraph_diffs iterates over partition both
\* paragraph lists: every original index lies in the [i1, i2) of exactly one
\* opcode and every corrected index in the [j1, j2) of exactly one; the
\* ranges start at 0, each opcode starts where the one before it ends, and
\* the last one ends at the lengths of the lists.
C17_OpcodesPartitionBothLists ==
  DiffStarted =>
    /\ \A x \in 0..(Len(original_paragraphs) - 1) :
         Cardinality(OpcodesCovering(opcodes, 1, x)) = 1
    /\ \A x \in 0..(Len(corrected_paragraphs) - 1) :
         Cardinality(OpcodesCovering(opcodes, 2, x)) = 1
    /\ \A n \in 1..Len(opcodes) :
         /\ opcodes[n].i1 <= opcodes[n].i2
         /\ opcodes[n].j1 <= opcodes[n].j2
         /\ opcodes[n].i1 = (IF n = 1 THEN 0 ELSE opcodes[n - 1].i2)
         /\ opcodes[n].j1 = (IF n = 1 THEN 0 ELSE opcodes[n - 1].j2)
    /\ opcodes # <<>> =>
         /\ opcodes[Len(opcodes)].i2 = Len(original_paragraphs)
         /\ opcodes[Len(opcodes)].j2 = Len(corrected_paragraphs)
    /\ opcodes = <<>> =>
         original_paragraphs = <<>> /\ corrected_paragraphs = <<>>

\* a diff with an equal opcode in the middle and a difference after it
C17_Witness ==
  /\ diff_pc = "returned"
  /\ Len(opcodes) = 3
  /\ opcodes[2].tag = "equal"
  /\ opcodes[1].tag = "replace"
  /\ opcodes[3].tag = "insert"

RECURSIVE ParagraphsOf(_, _, _)
\* the paragraphs of the ranges of the opcodes with a tag in `tags`, in
\* order; side 1 takes original_paragraphs[i1:i2], side 2
\* corrected_paragraphs[j1:j2]
ParagraphsOf(ops, tags, side) ==
  IF ops = <<>> THEN <<>>
  ELSE (IF Head(ops).tag \in tags
          THEN (IF side = 1
                  THEN SubSeq(original_paragraphs, Head(ops).i1 + 1,
                              Head(ops).i2)
                  ELSE SubSeq(corrected_paragraphs, Head(ops).j1 + 1,
                              Head(ops).j2))
        ELSE <<>>)
       \o ParagraphsOf(Tail(ops), tags, side)

\* the blocks with a change type in `types`
BlocksOfType(types) ==
  SelectSeq(diff_blocks, LAMBDA block : block.change_type \in types)

\* C18 (stated as claimed): in the list compute_paragraph_diffs returns,
\* every block is 'modified', 'deleted' or 'added'; the original texts of the
\* 'modified' and 'deleted' blocks are exactly the original paragraphs of the
\* replace and delete ranges, each once, and the corrected texts of the
\* 'modified' and 'added' blocks exactly the corrected paragraphs of the
\* replace and insert ranges, each once; nothing is emitted for equal ranges.
C18_EveryChangedParagraphInOneBlock ==
  diff_pc = "returned" =>
    /\ \A n \in 1..Len(diff_blocks) :
         diff_blocks[n].change_type \in {"modified", "deleted", "added"}
    /\ LET kept == BlocksOfType({"modified", "deleted"}) IN
         [n \in 1..Len(kept) |-> kept[n].original_text]
           = ParagraphsOf(opcodes, {"replace", "delete"}, 1)
    /\ LET kept == BlocksOfType({"modified", "added"}) IN
         [n \in 1..Len(kept) |-> kept[n].corrected_text]
           = ParagraphsOf(opcodes, {"replace", "insert"}, 2)

\* the 1-indexed positions at which two lists of the same length differ
ChangedPositions ==
  {p \in 1..Len(original_paragraphs) :
     original_paragraphs[p] # corrected_paragraphs[p]}

\* the list with paragraph x put in after the first p paragraphs
InsertedAt(paragraphs, p, x) ==
  SubSeq(paragraphs, 1, p) \o <<x>> \o SubSeq(paragraphs, p + 1, Len(paragraphs))

\* two files with the same number of paragraphs: one 'modified' block for
\* each position at which they differ, in increasing order, numbered by the
\* position and holding the two versions of the paragraph
ModifiedAtChangedPositions ==
  (diff_pc = "returned" /\ Len(original_paragraphs) = Len(corrected_paragraphs))
    =>
    /\ Len(diff_blocks) = Cardinality(ChangedPositions)
    /\ \A n \in 1..Len(diff_blocks) :
         /\ diff_blocks[n].change_type = "modified"
         /\ diff_blocks[n].paragraph_number \in ChangedPositions
         /\ n > 1 => diff_blocks[n - 1].paragraph_number
                       < diff_blocks[n].paragraph_number
         /\ diff_blocks[n].original_text
              = original_paragraphs[diff_blocks[n].paragraph_number]
         /\ diff_blocks[n].corrected_text
              = corrected_paragraphs[diff_blocks[n].paragraph_number]

\* a corrected file that is the original with one paragraph put in: one
\* 'added' block holding that paragraph
OneInsertionIsOneAdded ==
  (/\ diff_pc = "returned"
   /\ \E p \in 0..Len(original_paragraphs) : \E x \in ParagraphTexts :
        corrected_paragraphs = InsertedAt(original_paragraphs, p, x))
    =>
    /\ Len(diff_blocks) = 1
    /\ diff_blocks[1].change_type = "added"
    /\ \E p \in 0..Len(original_paragraphs) :
         corrected_paragraphs =
           InsertedAt(original_paragraphs, p, diff_blocks[1].corrected_text)

\* C19 (stated as claimed): for files with the same number of paragraphs
\* that differ exactly at the positions K the diff is |K| 'modified' blocks,
\* in increasing order, numbered by position, with the two versions of the
\* paragraph; for a corrected file with one paragraph inserted it is one
\* 'added' block with that paragraph.
C19_ModifiedBlocksAtChangedPositions ==
  ModifiedAtChangedPositions /\ OneInsertionIsOneAdded

\* --------------------------------------- properties of highlight_changes
\* the entries of a list of highlights
Entries(highlights) == {highlights[n] : n \in 1..Len(highlights)}

\* the entry (start, end, tag) of token i (0-based) of a token list
MarkOf(tokens, i, tag) == <<tokens[i + 1].start, tokens[i + 1].end, tag>>

\* C20: highlight_changes returns only (start, end, 'delete') entries for the
\* original and only (start, end, 'insert') entries for the corrected text,
\* each the span of one token of that text and no span twice; the tokens of
\* an equal opcode are in neither list, every token of a replace, delete or
\* insert opcode is in the list of its side; two identical texts give two
\* empty lists.
C20_HighlightsAreChangedTokens ==
  diff_pc = "highlighted" =>
    LET original_words == tokenize_with_positions(hl_original)
        corrected_words == tokenize_with_positions(hl_corrected)
        ops == get_opcodes(Words(original_words), Words(corrected_words))
    IN
      /\ \A e \in Entries(original_highlights) :
           /\ e[3] = "delete"
           /\ \E i \in 0..(Len(original_words) - 1) :
                e = MarkOf(original_words, i, "delete")
           /\ \A x \in (e[1] + 1)..e[2] : hl_original[x] \notin Whitespace
      /\ \A e \in Entries(corrected_highlights) :
           /\ e[3] = "insert"
           /\ \E j \in 0..(Len(corrected_words) - 1) :
                e = MarkOf(corrected_words, j, "insert")
           /\ \A x \in (e[1] + 1)..e[2] : hl_corrected[x] \notin Whitespace
      /\ Cardinality(Entries(original_highlights)) = Len(original_highlights)
      /\ Cardinality(Entries(corrected_highlights)) = Len(corrected_highlights)
      /\ \A n \in 1..Len(ops) :
           /\ \A i \in ops[n].i1..(ops[n].i2 - 1) :
                MarkOf(original_words, i, "delete")
                  \in Entries(original_highlights)
                  <=> ops[n].tag # "equal"
           /\ \A j \in ops[n].j1..(ops[n].j2 - 1) :
                MarkOf(corrected_words, j, "insert")
                  \in Entries(corrected_highlights)
                  <=> ops[n].tag # "equal"
      /\ hl_original = hl_corrected =>
           original_highlights = <<>> /\ corrected_highlights = <<>>

\* a text with an unchanged word and a replaced word
C20_Witness ==
  /\ diff_pc = "highlighted"
  /\ Len(original_highlights) = 1
  /\ Len(corrected_highlights) = 1
  /\ Len(tokenize_with_positions(hl_original)) = 2
  /\ Len(tokenize_with_positions(hl_corrected)) = 2

IsBlank(line) == Strip(line) = <<>>

\* the lists of the lines of each paragraph, one after the other
RECURSIVE LinesOfAll(_)
LinesOfAll(ps) ==
  IF ps = <<>> THEN <<>> ELSE SplitLines(Head(ps)) \o LinesOfAll(Tail(ps))

StripAll(lines) == [i \in 1..Len(lines) |-> Strip(lines[i])]

\* the line at position i written twice
Doubled(lines, i) == SubSeq(lines, 1, i) \o SubSeq(lines, i, Len(lines))

\* C21: _split_paragraphs returns the paragraphs in document order, split
\* on blank lines (empty or whitespace-only): its paragraphs hold the
\* non-blank lines in order (compared without the whitespace around each
\* line), a new paragraph starting after each run of blank lines; every
\* paragraph is non-empty and has no leading or trailing
\* whitespace; and a text with one more blank line at a paragraph boundary
\* gives the same list.
C21_SplitParagraphsTrimmedInOrder ==
  split_pc = "returned" =>
    LET lines == SplitLines(split_text)
        starts == {i \in 1..Len(lines) :
                     /\ ~IsBlank(lines[i])
                     /\ i = 1 \/ IsBlank(lines[i - 1])}
    IN /\ StripAll(LinesOfAll(paragraphs_out))
            = StripAll(SelectSeq(lines, LAMBDA line : ~IsBlank(line)))
       /\ Len(paragraphs_out) = Cardinality(starts)
       /\ \A n \in 1..Len(paragraphs_out) :
            /\ paragraphs_out[n] # <<>>
            /\ Strip(paragraphs_out[n]) = paragraphs_out[n]
       /\ \A i \in 1..Len(lines) :
            IsBlank(lines[i]) =>
              split_paragraphs(JoinLines(Doubled(lines, i))) = paragraphs_out

\* C22 (stated as claimed): a rewriter stage (T5 corrector, GRMR-V3 filter)
\* never stores in a span a replacement whose count of some structural
\* marker differs from the count in the text the span had when the stage
\* was called: such a span keeps its original text.
C22_RewriterKeepsMarkerCounts ==
  Rewriter =>
    \A b \in 1..Len(text_blocks) :
      ~MarkersDiffer(original[b], text_blocks[b])

\* --------------------------------------------- properties of run(), go on
\* C23: with fail_fast set, run() stops at the first filter that raises:
\* the exception reaches the caller, exactly one failure is logged, the
\* failed filter is the last one whose process() was called, the filters
\* called are the ones before it in list order, and no output file is
\* written when the failed filter is not the output generator.
C23_FailFastStopsAtFirstFailure ==
  fail_fast /\ failures # <<>> =>
    /\ run_pc = "raised"
    /\ Len(failures) = 1
    /\ executed = SubSeq(run_filters, 1, run_no)
    /\ executed[Len(executed)] = failures[1]
    /\ failures[1] \notin OutputGenerators => ~run_written /\ run_output = <<>>

C23_Witness ==
  /\ fail_fast
  /\ run_pc = "raised"
  /\ failures = <<"SpellingCorrectionFilter">>
  /\ Len(executed) >= 2
  /\ Len(executed) < Len(run_filters)

\* ----------------------------------- properties of the safe filter, go on
Unbalanced(text) ==
  \/ Count(text, "[") # Count(text, "]")
  \/ Count(text, "(") # Count(text, ")")

\* C24 (stated as claimed): for a span whose content has unbalanced
\* brackets, the safe grammar filter returns the content unchanged and all
\* category counts zero, whatever matches the engine returned for it.
C24_UnbalancedSpanReverts ==
  /\ stage = "safe" /\ pc = "ret" /\ Unbalanced(original[idx]) =>
       /\ ret_text = original[idx]
       /\ ret_stats = ZeroStats
  /\ stage = "safe" =>
       \A b \in 1..Len(text_blocks) :
         Unbalanced(original[b]) => text_blocks[b] = original[b]

\* ------------------------------------ properties of the diff engine, go on
RECURSIVE SumUpTo(_, _)
SumUpTo(counts, n) == IF n = 0 THEN 0 ELSE counts[n] + SumUpTo(counts, n - 1)

\* the line numbers the blocks of the opcodes from position n on are to carry
\* when every paragraph an opcode consumes adds its newline count plus one:
\* the original paragraphs of equal, replace and delete, the corrected
\* paragraphs of insert
RECURSIVE ClaimedLines(_, _, _)
ClaimedLines(ops, n, line) ==
  IF n > Len(ops) THEN <<>>
  ELSE
    LET op == ops[n]
        counts ==
          IF op.tag = "insert"
            THEN [d \in 1..(op.j2 - op.j1) |->
                    LineCount(corrected_paragraphs[op.j1 + d])]
            ELSE [d \in 1..(op.i2 - op.i1) |->
                    LineCount(original_paragraphs[op.i1 + d])]
        emitted ==
          IF op.tag = "equal" THEN 0
          ELSE IF op.tag = "replace" THEN Min(op.i2 - op.i1, op.j2 - op.j1)
          ELSE Len(counts)
    IN [d \in 1..emitted |-> line + SumUpTo(counts, d - 1)]
         \o ClaimedLines(ops, n + 1, line + SumUpTo(counts, Len(counts)))

\* C25 (stated as claimed): the line_number of every emitted DiffBlock is 1
\* plus the sum of newline count plus one over every paragraph consumed
\* before the block, by equal, replace, delete and insert opcodes alike; the
\* counter is at least 1 and the line numbers never decrease.
C25_LineNumberCountsConsumedParagraphs ==
  DiffStarted =>
    /\ [b \in 1..Len(diff_blocks) |-> diff_blocks[b].line_number]
         = SubSeq(ClaimedLines(opcodes, 1, 1), 1, Len(diff_blocks))
    /\ line_number >= 1
    /\ \A b \in 1..Len(diff_blocks) :
         /\ diff_blocks[b].line_number <= line_number
         /\ b > 1 => diff_blocks[b - 1].line_number <= diff_blocks[b].line_number

\* position of a filter in a list, 0 if it is not in it
IndexOf(filters, f) ==
  IF \E i \in 1..Len(filters) : filters[i] = f
    THEN CHOOSE i \in 1..Len(filters) : filters[i] = f
    ELSE 0

RunStarted == run_pc \in {"run", "raised", "returned"}

\* C26: for every valid configuration the filter list starts with the
\* parser and ends with the TTS normalizer followed by the output generator;
\* in hybrid mode the model filter precedes spelling and safe grammar, in
\* supplement mode it follows them, in replace mode they are absent; and
\* run() calls the filters one at a time in list order, each at most once.
C26_FilterOrderByConfiguration ==
  RunStarted =>
    LET n == Len(run_filters)
        spelling == IndexOf(run_filters, "SpellingCorrectionFilter")
        grammar == IndexOf(run_filters, "GrammarCorrectionFilterSafe")
        t5 == IndexOf(run_filters, "T5CorrectionFilter")
        grmr == IndexOf(run_filters, "GRMRV3GrammarFilter")
        model == IF run_config.use_t5 THEN t5 ELSE grmr
        mode == IF run_config.use_t5 THEN run_config.t5_mode
                ELSE IF run_config.use_grmr THEN run_config.grmr_mode
                ELSE "none"
    IN /\ run_filters[1] \in ParserFilters
       /\ run_filters[n - 1] = "TTSNormalizer"
       /\ run_filters[n] \in OutputGenerators
       /\ \A i, j \in 1..n : run_filters[i] = run_filters[j] => i = j
       /\ run_config.use_t5 => t5 > 0 /\ grmr = 0
       /\ run_config.use_grmr => grmr > 0 /\ t5 = 0
       /\ mode = "none" => t5 = 0 /\ grmr = 0 /\ 1 < spelling /\ spelling < grammar
       /\ mode = "hybrid" => 1 < model /\ model < spelling /\ spelling < grammar
       /\ mode = "supplement" => 1 < spelling /\ spelling < grammar /\ grammar < model
       /\ mode = "replace" => spelling = 0 /\ grammar = 0 /\ model = 2
       /\ executed = SubSeq(run_filters, 1, Len(executed))
       /\ Len(handed) = Len(executed)
       /\ run_pc = "run" => Len(executed) = run_no - 1
       /\ run_pc = "returned" => executed = run_filters

C26_Witness ==
  /\ run_pc = "returned"
  /\ run_config.use_grmr
  /\ run_config.grmr_mode = "hybrid"
  /\ executed = run_filters
  /\ run_written

\* ----------------------------------- properties of the safe filter, go on
\* the items of one offset, in list order
AtOffset(items, offset) ==
  SelectSeq(items, LAMBDA item : item.match.offset = offset)

\* is `sorted` the list `items` in descending offset order, items of equal
\* offset in the order they have in `items`
StablyDescending(sorted, items) ==
  /\ Len(sorted) = Len(items)
  /\ \A p \in 1..(Len(sorted) - 1) :
       sorted[p].match.offset >= sorted[p + 1].match.offset
  /\ \A p \in 1..Len(items) :
       AtOffset(sorted, items[p].match.offset)
         = AtOffset(items, items[p].match.offset)

\* C27: the kept matches are applied in descending offset order, matches
\* with equal offsets in the order in which the engine listed them, so the
\* text and the counters that come back are fixed by the match list.
C27_EqualOffsetsKeepEngineOrder ==
  stage = "safe" /\ (pc = "apply" \/ SafeCallReturned) =>
    /\ StablyDescending(safe_matches, FilterSafe(matches))
    /\ applied = [p \in 1..Len(applied) |-> safe_matches[p].match]
    /\ SafeCallReturned =>
         /\ Len(applied) = Len(safe_matches)
         /\ ret_text \in {text_blocks[idx], ApplyAll(text_blocks[idx], safe_matches)}

C27_Witness ==
  /\ SafeCallReturned
  /\ Len(applied) = 2
  /\ applied[1].offset = applied[2].offset
  /\ applied[1] # applied[2]
  /\ ret_text # text_blocks[idx]

\* ------------------------------------------- properties of the EPUB parser
\* C28 (stated as claimed): the parser emits exactly one span per paragraph
\* element that holds text other than whitespace, paragraphs whose text is
\* split by inline child elements included, in the order of the paragraphs
\* and of the parts, each span referencing its paragraph element and the
\* name of its part.
C28_OneSpanPerNonEmptyParagraph ==
  epub_pc = "returned" =>
    LET NonEmpty(n) == Strip(get_text(epub_book[n].contents)) # <<>>
        expected == SelectSeq([n \in 1..Len(epub_book) |-> n], NonEmpty)
    IN /\ [b \in 1..Len(epub_blocks) |-> epub_blocks[b].element] = expected
       /\ \A b \in 1..Len(epub_blocks) :
            epub_blocks[b].item_name = epub_book[epub_blocks[b].element].item_name

\* -------------------------------------- properties of the LanguageTool cache
CacheStarted == cache_thread # <<>>

InLock(t) == cache_thread[t].at \in {"building", "cached", "resetting"}

\* C29: for get_language_tool() calls with no reset and no forced refresh
\* between them the backend is built at most once and all callers receive
\* the same (tool, backend) pair, the cached one; callers receive a pair
\* only after a build that followed the last reset; and a build never runs
\* at the same time as another build or a reset: whoever builds or resets
\* holds _cache_lock.
C29_CacheBuiltOnceUnderLock ==
  CacheStarted =>
    /\ cache_hist.builds <= 1
    /\ cache_hist.received \subseteq {cached_tool}
    /\ NoTool \notin cache_hist.received
    /\ cache_hist.received # {} => cache_hist.builds = 1
    /\ \A t, u \in CacheThreads : InLock(t) /\ InLock(u) => t = u
    /\ \A t \in CacheThreads : InLock(t) <=> cache_lock = t

C29_Witness ==
  /\ CacheStarted
  /\ cache_hist.received # {}
  /\ \E t, u \in CacheThreads :
       /\ At(t, "cached") /\ ~cache_thread[t].force_refresh
       /\ At(u, "get") /\ ~cache_thread[u].force_refresh

SpellingFailed ==
  \E i \in 1..Len(failures) : failures[i] = "SpellingCorrectionFilter"

\* C30: with fail_fast false, when the spelling filter raises at one of its
\* spans, run() records the failure and goes on: the next filter receives
\* the spans as the failed filter left them, corrected before the span it
\* failed on and untouched from there on; every later filter runs, the
\* output generator included, and what is written is what the output
\* generator received, which is that partly corrected content when the
\* filters in between change nothing.
C30_PartialEditsReachOutput ==
  LET n == Len(run_filters)
      i == IndexOf(run_filters, "SpellingCorrectionFilter")
  IN (RunStarted /\ ~fail_fast /\ SpellingFailed) =>
       /\ run_pc # "raised"
       /\ Len(handed) >= i
       /\ handed[i] # <<>>
       /\ run_blocks # <<>>
       /\ Len(handed) > i => handed[i + 1] = SpellFixUpTo(handed[i], raise_at)
       /\ Len(handed) = i => run_blocks = SpellFixUpTo(handed[i], raise_at)
       /\ run_pc = "returned" =>
            /\ executed = run_filters
            /\ run_written
            /\ run_output = handed[n]
            /\ (\A j \in (i + 1)..(n - 1) : handed[j + 1] = handed[j]) =>
                 run_output = SpellFixUpTo(handed[i], raise_at)

C30_Witness ==
  LET i == IndexOf(run_filters, "SpellingCorrectionFilter")
  IN /\ run_pc = "returned"
     /\ ~fail_fast
     /\ SpellingFailed
     /\ raise_at = 2
     /\ handed[i] = << <<"a">>, <<"a">> >>
     /\ run_written
     /\ run_output = << <<"b">>, <<"a">> >>

====
